---- MODULE Spec2Model ----
(***************************************************************************)
(* Two-player trail game (gap/border variant, src/unnamed/part_000 lines   *)
(* 1-656): the round state machine, the per-frame step, the trail mask and *)
(* the collision query.                                                    *)
(*                                                                         *)
(* Number representation.  The program computes with IEEE doubles; the     *)
(* model computes with integers in fixed point:                            *)
(*   time, score, gap timers : milliseconds (the step divides ms by 1000)  *)
(*   heading angle           : 1/1000 of a quarter turn, so that           *)
(*                             turnSpeed (PI/2 rad/s) * dt is dt in ms     *)
(*   positions               : 1/1000 pixel                                *)
(*   mask cells, buffer points, surface sizes : whole pixels               *)
(*   ignore margins          : 1/100 pixel                                 *)
(* Math.cos / Math.sin are a table of thousandths at multiples of 1/10 of  *)
(* a quarter turn; every delta time the model draws is a multiple of       *)
(* 100 ms, so only tabulated angles occur.                                 *)
(***************************************************************************)
EXTENDS Integers, Sequences, FiniteSets, TLC

VARIABLES isMoving, hasRoundEnded, trailMask, playerOne, playerTwo,
          pressedKeys, hud, canvas, lastStep

\* isMoving, hasRoundEnded, trailMask, playerOne, playerTwo, pressedKeys are
\* the variables of the effect's closure, hud is the React state, canvas the
\* CSS size of the canvas.  lastStep is a history variable that the program
\* does not have: what the last frame step did to each player ("still",
\* "dead", "border", "trail", "solid", "gap") or "spawn" after a reset, and
\* whether the last reset was made in an ended round.
\* The specifications of single parts of the program (SpecBuffers, SpecGap,
\* SpecTurn, SpecHeadOn, SpecMask) keep in it the history their properties
\* need; each says what it holds at its initial predicate.

vars == <<isMoving, hasRoundEnded, trailMask, playerOne, playerTwo,
          pressedKeys, hud, canvas, lastStep>>

(***************************************************************************)
(* CONFIG                                                                  *)
(***************************************************************************)
radiusPixels == 2
forwardSpeedPixelsPerSecond == 80
recentIgnoreFrameCount == 10
extraIgnoreMarginPixels == 75
minIntervalSeconds == 1200
maxIntervalSeconds == 3000
minDurationSeconds == 180
maxDurationSeconds == 350
corridorExtraMarginPixels == 60
corridorMaxPoints == 600
thicknessPixels == 4
insetPixels == 4
gapsEnabled == TRUE

toggleMovementKey == " "
restartKey == "r"
playerOneTurnLeftKey == "a"
playerOneTurnRightKey == "d"
playerTwoTurnLeftKey == "j"
playerTwoTurnRightKey == "k"

StatusIdle == "Press SPACE to start"
StatusPaused == "Paused (SPACE)"
\* the bullet character of the source text is written as a hyphen
StatusEnded == "Both crashed - Press R to restart"

(***************************************************************************)
(* Bounds and input sets                                                   *)
(***************************************************************************)
\* a step is explored while every score stays within MaxScoreTicks * 600 ms
MaxScoreTicks == 2
\* a step is explored while every heading stays within MaxTurnTicks * 600
MaxTurnTicks == 1

\* delta times of a frame, ms
DeltaTimes == {600, 1200}
\* play-surface sizes <<width, height>>
Surfaces == {<<12, 12>>, <<124, 124>>}
\* The values Math.random() returns during one resetRound call, each as
\* <<numerator, denominator>> in [0, 1): x and y of player one, x and y of
\* player two, the gap countdown of player one, that of player two.
ResetDraws == { <<<<0, 1>>, <<0, 1>>, <<0, 1>>, <<0, 1>>, <<0, 1>>, <<0, 1>>>>,
                <<<<0, 1>>, <<0, 1>>, <<6, 13>>, <<0, 1>>, <<1, 2>>, <<0, 1>>>>,
                <<<<1, 13>>, <<1, 13>>, <<0, 1>>, <<0, 1>>, <<0, 1>>, <<1, 2>>>> }
\* the values Math.random() returns to updateGap
GapDraws == { <<0, 1>>, <<1, 2>> }
\* the keys of the key events that reach pressedKeys: one turn key for each
\* player (the step consults pressedKeys for the four turn keys only)
TurnKeys == {playerOneTurnLeftKey, playerTwoTurnRightKey}

(***************************************************************************)
(* Arithmetic helpers                                                      *)
(***************************************************************************)
Max(a, b) == IF a >= b THEN a ELSE b
Min(a, b) == IF a <= b THEN a ELSE b

\* Math.round on a position in 1/1000 pixel: nearest pixel, halves go up
Round(v) == (v + 500) \div 1000

\* Math.cos, thousandths, of an angle in 1/1000 quarter turn
CosTable == <<1000, 988, 951, 891, 809, 707, 588, 454, 309, 156, 0>>
Cos(angle) ==
    LET i == (angle % 4000) \div 100
    IN  IF i <= 10 THEN CosTable[i + 1]
        ELSE IF i <= 20 THEN -CosTable[(20 - i) + 1]
        ELSE IF i <= 30 THEN -CosTable[(i - 20) + 1]
        ELSE CosTable[(40 - i) + 1]
Sin(angle) == Cos(angle - 1000)

\* min + Math.random() * (max - min), with Math.random() = draw[1]/draw[2]
randomInRange(min, max, draw) == min + (draw[1] * (max - min)) \div draw[2]

(***************************************************************************)
(* Trail mask: occupancy is the set of array indices holding 1             *)
(***************************************************************************)
createTrailMask(w, h) ==
    [widthPixels |-> w, heightPixels |-> h, occupancy |-> {}]

\* variant: the box is not clamped in x, so a circle that sticks out of the
\* grid sideways is written into the neighbouring rows of the array
markVisitedCircle_NoClamp(tm, centerX, centerY, r) ==
    LET minX == centerX - r
        maxX == centerX + r
        minY == Max(0, centerY - r)
        maxY == Min(tm.heightPixels - 1, centerY + r)
        radiusSquared == r * r
        marked == { pixelY * tm.widthPixels + pixelX :
                      <<pixelX, pixelY>> \in
                        { c \in (minX..maxX) \X (minY..maxY) :
                            (c[1] - centerX) * (c[1] - centerX)
                              + (c[2] - centerY) * (c[2] - centerY)
                                <= radiusSquared } }
    IN  [tm EXCEPT !.occupancy =
            tm.occupancy \cup (marked \cap (0..(tm.widthPixels * tm.heightPixels - 1)))]

\* variant: the rim of the circle is left unmarked
markVisitedCircle_Strict(tm, centerX, centerY, r) ==
    LET minX == Max(0, centerX - r)
        maxX == Min(tm.widthPixels - 1, centerX + r)
        minY == Max(0, centerY - r)
        maxY == Min(tm.heightPixels - 1, centerY + r)
        radiusSquared == r * r
        marked == { pixelY * tm.widthPixels + pixelX :
                      <<pixelX, pixelY>> \in
                        { c \in (minX..maxX) \X (minY..maxY) :
                            (c[1] - centerX) * (c[1] - centerX)
                              + (c[2] - centerY) * (c[2] - centerY)
                                < radiusSquared } }
    IN  [tm EXCEPT !.occupancy = tm.occupancy \cup marked]

\* centerX, centerY are rounded coordinates and r a whole number, so
\* Math.floor and Math.ceil leave the box corners as they are
markVisitedCircle(tm, centerX, centerY, r) ==
    LET minX == Max(0, centerX - r)
        maxX == Min(tm.widthPixels - 1, centerX + r)
        minY == Max(0, centerY - r)
        maxY == Min(tm.heightPixels - 1, centerY + r)
        radiusSquared == r * r
        marked == { pixelY * tm.widthPixels + pixelX :
                      <<pixelX, pixelY>> \in
                        { c \in (minX..maxX) \X (minY..maxY) :
                            (c[1] - centerX) * (c[1] - centerX)
                              + (c[2] - centerY) * (c[2] - centerY)
                                <= radiusSquared } }
    IN  [tm EXCEPT !.occupancy = tm.occupancy \cup marked]

\* The scan returns true at the first occupied cell of the circle that no
\* ignored point excuses, so its result is the existence of such a cell.
\* center is a rounded point and r a whole number, so Math.floor and
\* Math.ceil leave the box corners as they are.
collidesWithTrailExcludingPoints(tm, center, r, ignoredPoints, extraMargin) ==
    LET minX == Max(0, center.x - r)
        maxX == Min(tm.widthPixels - 1, center.x + r)
        minY == Max(0, center.y - r)
        maxY == Min(tm.heightPixels - 1, center.y + r)
        radiusSquared == r * r
        ignoreRadius == r * 100 + extraMargin
        ignoreRadiusSquared == ignoreRadius * ignoreRadius
        belongsToIgnored(pixelX, pixelY) ==
            \E i \in 1..Len(ignoredPoints) :
                LET dx == pixelX - ignoredPoints[i].x
                    dy == pixelY - ignoredPoints[i].y
                IN  (dx * dx + dy * dy) * 10000 <= ignoreRadiusSquared
    IN  \E pixelY \in minY..maxY : \E pixelX \in minX..maxX :
            /\ (pixelX - center.x) * (pixelX - center.x)
                 + (pixelY - center.y) * (pixelY - center.y) <= radiusSquared
            /\ (pixelY * tm.widthPixels + pixelX) \in tm.occupancy
            /\ ~belongsToIgnored(pixelX, pixelY)

\* The same query computed the way the code computes it: the cells of the
\* clamped bounding box are visited row by row, and for an occupied cell of
\* the circle the ignored points are tried in list order until one excuses
\* the cell; the first cell that none excuses ends the scan with true.
RECURSIVE belongsToIgnored_Strict(_, _, _, _, _)
\* variant: a cell exactly at the ignore radius is not excused
belongsToIgnored_Strict(ignoredPoints, i, pixelX, pixelY, ignoreRadiusSquared) ==
    IF i > Len(ignoredPoints) THEN FALSE
    ELSE LET dx == pixelX - ignoredPoints[i].x
             dy == pixelY - ignoredPoints[i].y
         IN  IF (dx * dx + dy * dy) * 10000 < ignoreRadiusSquared THEN TRUE
             ELSE belongsToIgnored_Strict(ignoredPoints, i + 1, pixelX, pixelY,
                                          ignoreRadiusSquared)

\* variant: only the point at index i is tried
belongsToIgnored_FirstOnly(ignoredPoints, i, pixelX, pixelY, ignoreRadiusSquared) ==
    IF i > Len(ignoredPoints) THEN FALSE
    ELSE LET dx == pixelX - ignoredPoints[i].x
             dy == pixelY - ignoredPoints[i].y
         IN  (dx * dx + dy * dy) * 10000 <= ignoreRadiusSquared

RECURSIVE belongsToIgnored(_, _, _, _, _)
\* lines 149-158: the loop over ignoredPoints from index i (1-based) on
belongsToIgnored(ignoredPoints, i, pixelX, pixelY, ignoreRadiusSquared) ==
    IF i > Len(ignoredPoints) THEN FALSE
    ELSE LET dx == pixelX - ignoredPoints[i].x
             dy == pixelY - ignoredPoints[i].y
         IN  IF (dx * dx + dy * dy) * 10000 <= ignoreRadiusSquared THEN TRUE
             ELSE belongsToIgnored(ignoredPoints, i + 1, pixelX, pixelY,
                                   ignoreRadiusSquared)

RECURSIVE ScanCells_SkipsLastColumn(_, _, _, _, _, _, _)
\* variant: the inner loop stops one column early
ScanCells_SkipsLastColumn(tm, center, r, ignoredPoints, ignoreRadiusSquared, box, cell) ==
    IF cell.y > box.maxY THEN FALSE
    ELSE IF cell.x >= box.maxX
    THEN ScanCells_SkipsLastColumn(tm, center, r, ignoredPoints, ignoreRadiusSquared,
                                   box, [x |-> box.minX, y |-> cell.y + 1])
    ELSE IF /\ (cell.x - center.x) * (cell.x - center.x)
                 + (cell.y - center.y) * (cell.y - center.y) <= r * r
            /\ (cell.y * tm.widthPixels + cell.x) \in tm.occupancy
            /\ ~belongsToIgnored(ignoredPoints, 1, cell.x, cell.y, ignoreRadiusSquared)
    THEN TRUE
    ELSE ScanCells_SkipsLastColumn(tm, center, r, ignoredPoints, ignoreRadiusSquared,
                                   box, [x |-> cell.x + 1, y |-> cell.y])

RECURSIVE ScanCells(_, _, _, _, _, _, _)
\* lines 137-162: the two nested loops over the cells of box, from cell on
ScanCells(tm, center, r, ignoredPoints, ignoreRadiusSquared, box, cell) ==
    IF cell.y > box.maxY THEN FALSE
    ELSE IF cell.x > box.maxX
    THEN ScanCells(tm, center, r, ignoredPoints, ignoreRadiusSquared,
                   box, [x |-> box.minX, y |-> cell.y + 1])
    ELSE IF /\ (cell.x - center.x) * (cell.x - center.x)
                 + (cell.y - center.y) * (cell.y - center.y) <= r * r
            /\ (cell.y * tm.widthPixels + cell.x) \in tm.occupancy
            /\ ~belongsToIgnored(ignoredPoints, 1, cell.x, cell.y, ignoreRadiusSquared)
    THEN TRUE
    ELSE ScanCells(tm, center, r, ignoredPoints, ignoreRadiusSquared,
                   box, [x |-> cell.x + 1, y |-> cell.y])

\* collidesWithTrailExcludingPoints as the scan
collidesScan(tm, center, r, ignoredPoints, extraMargin) ==
    LET minX == Max(0, center.x - r)
        maxX == Min(tm.widthPixels - 1, center.x + r)
        minY == Max(0, center.y - r)
        maxY == Min(tm.heightPixels - 1, center.y + r)
        ignoreRadius == r * 100 + extraMargin
    IN  ScanCells(tm, center, r, ignoredPoints, ignoreRadius * ignoreRadius,
                  [minX |-> minX, maxX |-> maxX, maxY |-> maxY],
                  [x |-> minX, y |-> minY])

(***************************************************************************)
(* Gap scheduler                                                           *)
(***************************************************************************)
initGapState(draw) ==
    [isActive |-> FALSE,
     timeUntilNextGap |-> randomInRange(minIntervalSeconds, maxIntervalSeconds, draw),
     remainingGapTime |-> 0]

\* variant: a transition charges the overshoot of the old timer to the new one
updateGap_CarriesOver(gap, dt, draw) ==
    IF ~gapsEnabled THEN gap
    ELSE IF gap.isActive
    THEN LET g == [gap EXCEPT !.remainingGapTime = @ - dt]
         IN  IF g.remainingGapTime <= 0
             THEN [g EXCEPT !.isActive = FALSE,
                            !.timeUntilNextGap =
                                randomInRange(minIntervalSeconds, maxIntervalSeconds, draw)
                                  + g.remainingGapTime]
             ELSE g
    ELSE LET g == [gap EXCEPT !.timeUntilNextGap = @ - dt]
         IN  IF g.timeUntilNextGap <= 0
             THEN [g EXCEPT !.isActive = TRUE,
                            !.remainingGapTime =
                                randomInRange(minDurationSeconds, maxDurationSeconds, draw)
                                  + g.timeUntilNextGap]
             ELSE g

\* variant: the two draws are taken from each other's ranges
updateGap_SwappedRanges(gap, dt, draw) ==
    IF ~gapsEnabled THEN gap
    ELSE IF gap.isActive
    THEN LET g == [gap EXCEPT !.remainingGapTime = @ - dt]
         IN  IF g.remainingGapTime <= 0
             THEN [g EXCEPT !.isActive = FALSE,
                            !.timeUntilNextGap =
                                randomInRange(minDurationSeconds, maxDurationSeconds, draw)]
             ELSE g
    ELSE LET g == [gap EXCEPT !.timeUntilNextGap = @ - dt]
         IN  IF g.timeUntilNextGap <= 0
             THEN [g EXCEPT !.isActive = TRUE,
                            !.remainingGapTime =
                                randomInRange(minIntervalSeconds, maxIntervalSeconds, draw)]
             ELSE g

updateGap(gap, dt, draw) ==
    IF ~gapsEnabled THEN gap
    ELSE IF gap.isActive
    THEN LET g == [gap EXCEPT !.remainingGapTime = @ - dt]
         IN  IF g.remainingGapTime <= 0
             THEN [g EXCEPT !.isActive = FALSE,
                            !.timeUntilNextGap =
                                randomInRange(minIntervalSeconds, maxIntervalSeconds, draw)]
             ELSE g
    ELSE LET g == [gap EXCEPT !.timeUntilNextGap = @ - dt]
         IN  IF g.timeUntilNextGap <= 0
             THEN [g EXCEPT !.isActive = TRUE,
                            !.remainingGapTime =
                                randomInRange(minDurationSeconds, maxDurationSeconds, draw)]
             ELSE g

(***************************************************************************)
(* Border                                                                  *)
(***************************************************************************)
\* variant: the edge of the safe rectangle counts as the border
hitsBorder_Inclusive(x, y, width, height, radius) ==
    LET minX == (insetPixels + thicknessPixels + radius) * 1000
        maxX == (width - insetPixels - thicknessPixels - radius) * 1000
        minY == (insetPixels + thicknessPixels + radius) * 1000
        maxY == (height - insetPixels - thicknessPixels - radius) * 1000
    IN  x <= minX \/ x >= maxX \/ y <= minY \/ y >= maxY

\* x, y in 1/1000 pixel; width, height, radius in pixels
hitsBorder(x, y, width, height, radius) ==
    LET minX == (insetPixels + thicknessPixels + radius) * 1000
        maxX == (width - insetPixels - thicknessPixels - radius) * 1000
        minY == (insetPixels + thicknessPixels + radius) * 1000
        maxY == (height - insetPixels - thicknessPixels - radius) * 1000
    IN  x < minX \/ x > maxX \/ y < minY \/ y > maxY

(***************************************************************************)
(* Buffers                                                                 *)
(***************************************************************************)
\* variant: a full recent buffer drops the pushed point and keeps the old ones
pushRecent_KeepOldest(player, point) ==
    LET pushed == Append(player.recentPositions, point)
    IN  [player EXCEPT !.recentPositions =
            IF Len(pushed) > recentIgnoreFrameCount
            THEN SubSeq(pushed, 1, recentIgnoreFrameCount) ELSE pushed]

pushRecent(player, point) ==
    LET pushed == Append(player.recentPositions, point)
    IN  [player EXCEPT !.recentPositions =
            IF Len(pushed) > recentIgnoreFrameCount THEN Tail(pushed) ELSE pushed]

pushGapCorridor(player, point) ==
    LET pushed == Append(player.gapCorridor, point)
    IN  [player EXCEPT !.gapCorridor =
            IF Len(pushed) > corridorMaxPoints
            THEN SubSeq(pushed, Len(pushed) - corridorMaxPoints + 1, Len(pushed))
            ELSE pushed]

(***************************************************************************)
(* Round state                                                             *)
(***************************************************************************)
\* the point {x: Math.round(x), y: Math.round(y)} of a position
RoundedPoint(pos) == [x |-> Round(pos.x), y |-> Round(pos.y)]

\* The round that resetRound leaves behind, with window.innerWidth = w and
\* window.innerHeight = h; draws holds the Math.random() values of the call:
\* four for the spawn positions, then one for each initGapState.
resetRound(w, h, draws) ==
    LET radius == radiusPixels
        minX == insetPixels + thicknessPixels + radius
        maxX == w - insetPixels - thicknessPixels - radius
        minY == insetPixels + thicknessPixels + radius
        maxY == h - insetPixels - thicknessPixels - radius
        posOne == [x |-> randomInRange(minX * 1000, maxX * 1000, draws[1]),
                   y |-> randomInRange(minY * 1000, maxY * 1000, draws[2])]
        posTwo == [x |-> randomInRange(minX * 1000, maxX * 1000, draws[3]),
                   y |-> randomInRange(minY * 1000, maxY * 1000, draws[4])]
        fresh(pos, draw) ==
            [angleRadians |-> 0, positionPixels |-> pos,
             recentPositions |-> <<>>, gapCorridor |-> <<>>,
             isAlive |-> TRUE, scoreSeconds |-> 0, gap |-> initGapState(draw)]
        markOne == markVisitedCircle(createTrailMask(w, h),
                                     Round(posOne.x), Round(posOne.y), radius)
        markTwo == markVisitedCircle(markOne,
                                     Round(posTwo.x), Round(posTwo.y), radius)
    IN  [canvas |-> [clientWidth |-> w, clientHeight |-> h],
         trailMask |-> markTwo,
         playerOne |-> pushRecent(fresh(posOne, draws[5]), RoundedPoint(posOne)),
         playerTwo |-> pushRecent(fresh(posTwo, draws[6]), RoundedPoint(posTwo)),
         isMoving |-> FALSE,
         hasRoundEnded |-> FALSE,
         hud |-> [playerOneScore |-> 0, playerTwoScore |-> 0,
                  statusText |-> StatusIdle, isRunning |-> FALSE]]

\* the state after the effect has run: resetRound() at line 453, no key down
Init ==
    \E s \in Surfaces, draws \in ResetDraws :
        LET r == resetRound(s[1], s[2], draws)
        IN  /\ canvas = r.canvas
            /\ trailMask = r.trailMask
            /\ playerOne = r.playerOne
            /\ playerTwo = r.playerTwo
            /\ isMoving = r.isMoving
            /\ hasRoundEnded = r.hasRoundEnded
            /\ hud = r.hud
            /\ pressedKeys = {}
            /\ lastStep = [one |-> "spawn", two |-> "spawn", from |-> "start"]

\* the assignments of one resetRound call
DoReset(w, h) ==
    \E draws \in ResetDraws :
        \E r \in {resetRound(w, h, draws)} :
            /\ canvas' = r.canvas
            /\ trailMask' = r.trailMask
            /\ playerOne' = r.playerOne
            /\ playerTwo' = r.playerTwo
            /\ isMoving' = r.isMoving
            /\ hasRoundEnded' = r.hasRoundEnded
            /\ hud' = r.hud
            /\ lastStep' = [one |-> "spawn", two |-> "spawn",
                            from |-> IF hasRoundEnded THEN "Ended" ELSE "other"]

(***************************************************************************)
(* Input handlers                                                          *)
(***************************************************************************)
\* variant: the toggle key works after the end of the round as well
Toggle_AfterEnd ==
    /\ isMoving' = ~isMoving
    /\ hud' = [hud EXCEPT !.isRunning = ~isMoving,
                          !.statusText = IF ~isMoving THEN "" ELSE StatusPaused]
    /\ UNCHANGED <<hasRoundEnded, trailMask, playerOne, playerTwo,
                   pressedKeys, canvas, lastStep>>

\* variant: the toggle key only ever starts the movement
Toggle_NoPause ==
    /\ ~hasRoundEnded
    /\ isMoving' = TRUE
    /\ hud' = [hud EXCEPT !.isRunning = TRUE, !.statusText = ""]
    /\ UNCHANGED <<hasRoundEnded, trailMask, playerOne, playerTwo,
                   pressedKeys, canvas, lastStep>>

\* handleKeyDown with the toggle key while the round has not ended
Toggle ==
    /\ ~hasRoundEnded
    /\ isMoving' = ~isMoving
    /\ hud' = [hud EXCEPT !.isRunning = ~isMoving,
                          !.statusText = IF ~isMoving THEN "" ELSE StatusPaused]
    /\ UNCHANGED <<hasRoundEnded, trailMask, playerOne, playerTwo,
                   pressedKeys, canvas, lastStep>>

\* handleKeyDown with the toggle key after the round has ended: early return
ToggleEnded ==
    /\ hasRoundEnded
    /\ UNCHANGED vars

\* handleKeyDown with the restart key: resetRound at the current window size
Restart ==
    /\ DoReset(canvas.clientWidth, canvas.clientHeight)
    /\ UNCHANGED pressedKeys

\* the window resize listener: resetRound at the new window size
Resize ==
    /\ \E s \in Surfaces :
          /\ s # <<canvas.clientWidth, canvas.clientHeight>>
          /\ DoReset(s[1], s[2])
    /\ UNCHANGED pressedKeys

\* handleKeyDown with any other key
KeyDown ==
    \E key \in TurnKeys :
        /\ pressedKeys' = pressedKeys \cup {key}
        /\ UNCHANGED <<isMoving, hasRoundEnded, trailMask, playerOne, playerTwo,
                       hud, canvas, lastStep>>

\* handleKeyUp with any key but the toggle key
KeyUp ==
    \E key \in pressedKeys :
        /\ pressedKeys' = pressedKeys \ {key}
        /\ UNCHANGED <<isMoving, hasRoundEnded, trailMask, playerOne, playerTwo,
                       hud, canvas, lastStep>>

(***************************************************************************)
(* The frame step                                                          *)
(***************************************************************************)
\* variant: only a living player turns
Rotate_AliveOnly(player, leftKey, rightKey, dt) ==
    LET afterLeft == IF leftKey \in pressedKeys /\ player.isAlive
                     THEN player.angleRadians - dt ELSE player.angleRadians
        afterRight == IF rightKey \in pressedKeys /\ player.isAlive
                      THEN afterLeft + dt ELSE afterLeft
    IN  [player EXCEPT !.angleRadians = afterRight]

\* lines 465-477 for one player: the heading after the rotation
Rotate(player, leftKey, rightKey, dt) ==
    LET afterLeft == IF leftKey \in pressedKeys
                     THEN player.angleRadians - dt ELSE player.angleRadians
        afterRight == IF rightKey \in pressedKeys
                      THEN afterLeft + dt ELSE afterLeft
    IN  [player EXCEPT !.angleRadians = afterRight]

\* variant: the delta time of a frame is clamped to 600 ms
advance_Clamped(angle, dt) ==
    [dx |-> (Cos(angle) * forwardSpeedPixelsPerSecond * Min(dt, 600)) \div 1000,
     dy |-> (Sin(angle) * forwardSpeedPixelsPerSecond * Min(dt, 600)) \div 1000]

\* advance(angle): the displacement of one frame, 1/1000 pixel
advance(angle, dt) ==
    [dx |-> (Cos(angle) * forwardSpeedPixelsPerSecond * dt) \div 1000,
     dy |-> (Sin(angle) * forwardSpeedPixelsPerSecond * dt) \div 1000]

\* the candidate position of a player in a frame
NextPosition(player, dt) ==
    [x |-> player.positionPixels.x + advance(player.angleRadians, dt).dx,
     y |-> player.positionPixels.y + advance(player.angleRadians, dt).dy]

\* variant: the opponent's gap corridor is not excused
IgnorePoints_OwnOnly(me, other) ==
    me.recentPositions \o me.gapCorridor

\* variant: the opponent's recent trail is excused as well
IgnorePoints_OtherRecent(me, other) ==
    me.recentPositions \o me.gapCorridor \o other.gapCorridor \o other.recentPositions

\* the exclusion list of a player's collision query
IgnorePoints(me, other) ==
    me.recentPositions \o me.gapCorridor \o other.gapCorridor

IgnoreMargin == Max(extraIgnoreMarginPixels, corridorExtraMarginPixels)

\* variant: a move made during a gap adds nothing to the score
CommitMove_GapUnscored(me, tm, next, dt) ==
    LET point == RoundedPoint(next)
        moved == [me EXCEPT !.positionPixels = next]
    IN  IF ~me.gap.isActive
        THEN [me |-> [pushRecent(moved, point) EXCEPT !.scoreSeconds = @ + dt],
              tm |-> markVisitedCircle(tm, point.x, point.y, radiusPixels),
              what |-> "solid"]
        ELSE [me |-> pushGapCorridor(moved, point), tm |-> tm, what |-> "gap"]

\* variant: a move made during a gap marks the mask as well
CommitMove_GapMarks(me, tm, next, dt) ==
    LET moved == [me EXCEPT !.positionPixels = next]
    IN  IF ~me.gap.isActive
        THEN [me |-> [pushRecent(moved, RoundedPoint(next))
                        EXCEPT !.scoreSeconds = @ + dt],
              tm |-> markVisitedCircle(tm, Round(next.x), Round(next.y), radiusPixels),
              what |-> "solid"]
        ELSE [me |-> [pushGapCorridor(moved, RoundedPoint(next))
                        EXCEPT !.scoreSeconds = @ + dt],
              tm |-> markVisitedCircle(tm, Round(next.x), Round(next.y), radiusPixels),
              what |-> "gap"]

\* lines 519-528 (556-566 for player two): the candidate is committed
CommitMove(me, tm, next, dt) ==
    LET moved == [me EXCEPT !.positionPixels = next]
    IN  IF ~me.gap.isActive
        THEN [me |-> [pushRecent(moved, RoundedPoint(next))
                        EXCEPT !.scoreSeconds = @ + dt],
              tm |-> markVisitedCircle(tm, Round(next.x), Round(next.y), radiusPixels),
              what |-> "solid"]
        ELSE [me |-> [pushGapCorridor(moved, RoundedPoint(next))
                        EXCEPT !.scoreSeconds = @ + dt],
              tm |-> tm,
              what |-> "gap"]

\* variant: the move is made for a dead player as well, and a dead player
\* whose candidate is free comes back to life
MovePlayer_Revives(me, other, tm, dt, w, h) ==
    LET radius == radiusPixels
        next == NextPosition(me, dt)
    IN  IF hitsBorder(next.x, next.y, w, h, radius)
        THEN [me |-> [me EXCEPT !.isAlive = FALSE], tm |-> tm, what |-> "border"]
        ELSE IF collidesWithTrailExcludingPoints(tm, RoundedPoint(next), radius,
                                                 IgnorePoints(me, other), IgnoreMargin)
        THEN [me |-> [me EXCEPT !.isAlive = FALSE], tm |-> tm, what |-> "trail"]
        ELSE CommitMove([me EXCEPT !.isAlive = TRUE], tm, next, dt)

\* variant: the score is advanced outside the isAlive test
MovePlayer_DeadScores(me, other, tm, dt, w, h) ==
    LET radius == radiusPixels
        next == NextPosition(me, dt)
    IN  IF ~me.isAlive
        THEN [me |-> [me EXCEPT !.scoreSeconds = @ + dt], tm |-> tm, what |-> "dead"]
        ELSE IF hitsBorder(next.x, next.y, w, h, radius)
        THEN [me |-> [me EXCEPT !.isAlive = FALSE], tm |-> tm, what |-> "border"]
        ELSE IF collidesWithTrailExcludingPoints(tm, RoundedPoint(next), radius,
                                                 IgnorePoints(me, other), IgnoreMargin)
        THEN [me |-> [me EXCEPT !.isAlive = FALSE], tm |-> tm, what |-> "trail"]
        ELSE CommitMove(me, tm, next, dt)

\* variant: a dead player keeps drifting along its heading
MovePlayer_DeadDrifts(me, other, tm, dt, w, h) ==
    LET radius == radiusPixels
        next == NextPosition(me, dt)
    IN  IF ~me.isAlive
        THEN [me |-> [me EXCEPT !.positionPixels = next], tm |-> tm, what |-> "dead"]
        ELSE IF hitsBorder(next.x, next.y, w, h, radius)
        THEN [me |-> [me EXCEPT !.isAlive = FALSE], tm |-> tm, what |-> "border"]
        ELSE IF collidesWithTrailExcludingPoints(tm, RoundedPoint(next), radius,
                                                 IgnorePoints(me, other), IgnoreMargin)
        THEN [me |-> [me EXCEPT !.isAlive = FALSE], tm |-> tm, what |-> "trail"]
        ELSE CommitMove(me, tm, next, dt)

\* The move of one player (lines 494-531 for player one against player two,
\* lines 534-569 with the roles exchanged): the player, the mask and what
\* happened to the player in this frame.
MovePlayer(me, other, tm, dt, w, h) ==
    LET radius == radiusPixels
        next == NextPosition(me, dt)
    IN  IF ~me.isAlive
        THEN [me |-> me, tm |-> tm, what |-> "dead"]
        ELSE IF hitsBorder(next.x, next.y, w, h, radius)
        THEN [me |-> [me EXCEPT !.isAlive = FALSE], tm |-> tm, what |-> "border"]
        ELSE IF collidesWithTrailExcludingPoints(tm, RoundedPoint(next), radius,
                                                 IgnorePoints(me, other), IgnoreMargin)
        THEN [me |-> [me EXCEPT !.isAlive = FALSE], tm |-> tm, what |-> "trail"]
        ELSE CommitMove(me, tm, next, dt)

\* variant: the death of both players is not noticed
StepFinish_NeverEnds(one, two) ==
    [playerOne |-> one.me, playerTwo |-> two.me, trailMask |-> two.tm,
     isMoving |-> isMoving, hasRoundEnded |-> hasRoundEnded,
     statusText |-> hud.statusText,
     lastStep |-> [one |-> one.what, two |-> two.what, from |-> "step"]]

\* variant: the end of the round leaves the status text as it was
StepFinish_SilentEnd(one, two) ==
    LET bothDead == ~one.me.isAlive /\ ~two.me.isAlive
    IN  [playerOne |-> one.me, playerTwo |-> two.me, trailMask |-> two.tm,
         isMoving |-> IF bothDead THEN FALSE ELSE isMoving,
         hasRoundEnded |-> IF bothDead THEN TRUE ELSE hasRoundEnded,
         statusText |-> hud.statusText,
         lastStep |-> [one |-> one.what, two |-> two.what, from |-> "step"]]

\* variant: the round ends as soon as one player is dead
StepFinish_EitherDead(one, two) ==
    LET bothDead == ~one.me.isAlive \/ ~two.me.isAlive
    IN  [playerOne |-> one.me, playerTwo |-> two.me, trailMask |-> two.tm,
         isMoving |-> IF bothDead THEN FALSE ELSE isMoving,
         hasRoundEnded |-> IF bothDead THEN TRUE ELSE hasRoundEnded,
         statusText |-> IF bothDead THEN StatusEnded ELSE hud.statusText,
         lastStep |-> [one |-> one.what, two |-> two.what, from |-> "step"]]

\* lines 571-580: the round ends when both players are dead
StepFinish(one, two) ==
    LET bothDead == ~one.me.isAlive /\ ~two.me.isAlive
    IN  [playerOne |-> one.me, playerTwo |-> two.me, trailMask |-> two.tm,
         isMoving |-> IF bothDead THEN FALSE ELSE isMoving,
         hasRoundEnded |-> IF bothDead THEN TRUE ELSE hasRoundEnded,
         statusText |-> IF bothDead THEN StatusEnded ELSE hud.statusText,
         lastStep |-> [one |-> one.what, two |-> two.what, from |-> "step"]]

\* variant: the gap clocks are advanced after the moves are resolved
StepResults_MoveBeforeGap(dt, drawOne, drawTwo) ==
    LET rotOne == Rotate(playerOne, playerOneTurnLeftKey, playerOneTurnRightKey, dt)
        rotTwo == Rotate(playerTwo, playerTwoTurnLeftKey, playerTwoTurnRightKey, dt)
        later(m, draw) == IF m.me.isAlive
                          THEN [m EXCEPT !.me.gap = updateGap(@, dt, draw)]
                          ELSE m
    IN  IF isMoving /\ ~hasRoundEnded
        THEN LET w == canvas.clientWidth
                 h == canvas.clientHeight
             IN  UNION { { StepFinish(later(one, drawOne), later(two, drawTwo)) :
                             two \in {MovePlayer(rotTwo, one.me, one.tm, dt, w, h)} } :
                         one \in {MovePlayer(rotOne, rotTwo, trailMask, dt, w, h)} }
        ELSE {[playerOne |-> rotOne, playerTwo |-> rotTwo, trailMask |-> trailMask,
              isMoving |-> isMoving, hasRoundEnded |-> hasRoundEnded,
              statusText |-> hud.statusText,
              lastStep |-> [one |-> "still", two |-> "still", from |-> "step"]]}

\* variant: player two's move is resolved before player one's
StepResults_TwoFirst(dt, drawOne, drawTwo) ==
    LET rotOne == Rotate(playerOne, playerOneTurnLeftKey, playerOneTurnRightKey, dt)
        rotTwo == Rotate(playerTwo, playerTwoTurnLeftKey, playerTwoTurnRightKey, dt)
    IN  IF isMoving /\ ~hasRoundEnded
        THEN LET w == canvas.clientWidth
                 h == canvas.clientHeight
                 gapOne == IF rotOne.isAlive
                           THEN [rotOne EXCEPT !.gap = updateGap(@, dt, drawOne)]
                           ELSE rotOne
                 gapTwo == IF rotTwo.isAlive
                           THEN [rotTwo EXCEPT !.gap = updateGap(@, dt, drawTwo)]
                           ELSE rotTwo
             IN  UNION { { StepFinish([one EXCEPT !.tm = two.tm], two) :
                             one \in {MovePlayer(gapOne, two.me, two.tm, dt, w, h)} } :
                         two \in {MovePlayer(gapTwo, gapOne, trailMask, dt, w, h)} }
        ELSE {[playerOne |-> rotOne, playerTwo |-> rotTwo, trailMask |-> trailMask,
              isMoving |-> isMoving, hasRoundEnded |-> hasRoundEnded,
              statusText |-> hud.statusText,
              lastStep |-> [one |-> "still", two |-> "still", from |-> "step"]]}

\* variant: the gap clocks run for dead players as well
StepResults_GapOfDead(dt, drawOne, drawTwo) ==
    LET rotOne == Rotate(playerOne, playerOneTurnLeftKey, playerOneTurnRightKey, dt)
        rotTwo == Rotate(playerTwo, playerTwoTurnLeftKey, playerTwoTurnRightKey, dt)
    IN  IF isMoving /\ ~hasRoundEnded
        THEN LET w == canvas.clientWidth
                 h == canvas.clientHeight
                 gapOne == [rotOne EXCEPT !.gap = updateGap(@, dt, drawOne)]
                 gapTwo == [rotTwo EXCEPT !.gap = updateGap(@, dt, drawTwo)]
             IN  UNION { { StepFinish(one, two) :
                             two \in {MovePlayer(gapTwo, one.me, one.tm, dt, w, h)} } :
                         one \in {MovePlayer(gapOne, gapTwo, trailMask, dt, w, h)} }
        ELSE {[playerOne |-> rotOne, playerTwo |-> rotTwo, trailMask |-> trailMask,
              isMoving |-> isMoving, hasRoundEnded |-> hasRoundEnded,
              statusText |-> hud.statusText,
              lastStep |-> [one |-> "still", two |-> "still", from |-> "step"]]}

\* The state the step(nowMs) callback leaves behind, with
\* nowMs - lastTimestampMs = dt; drawOne and drawTwo are the Math.random()
\* values the two updateGap calls use when they make a transition.  The code
\* is sequential, so there is exactly one result; it is built as a
\* one-element set so that each intermediate value is computed once.
StepResults(dt, drawOne, drawTwo) ==
    LET rotOne == Rotate(playerOne, playerOneTurnLeftKey, playerOneTurnRightKey, dt)
        rotTwo == Rotate(playerTwo, playerTwoTurnLeftKey, playerTwoTurnRightKey, dt)
    IN  IF isMoving /\ ~hasRoundEnded
        THEN LET w == canvas.clientWidth
                 h == canvas.clientHeight
                 gapOne == IF rotOne.isAlive
                           THEN [rotOne EXCEPT !.gap = updateGap(@, dt, drawOne)]
                           ELSE rotOne
                 gapTwo == IF rotTwo.isAlive
                           THEN [rotTwo EXCEPT !.gap = updateGap(@, dt, drawTwo)]
                           ELSE rotTwo
             IN  UNION { { StepFinish(one, two) :
                             two \in {MovePlayer(gapTwo, one.me, one.tm, dt, w, h)} } :
                         one \in {MovePlayer(gapOne, gapTwo, trailMask, dt, w, h)} }
        ELSE {[playerOne |-> rotOne, playerTwo |-> rotTwo, trailMask |-> trailMask,
              isMoving |-> isMoving, hasRoundEnded |-> hasRoundEnded,
              statusText |-> hud.statusText,
              lastStep |-> [one |-> "still", two |-> "still", from |-> "step"]]}

Abs(n) == IF n < 0 THEN -n ELSE n

\* the step is explored while headings and scores stay within the bounds
WithinBounds(r) ==
    /\ Abs(r.playerOne.angleRadians) <= MaxTurnTicks * 600
    /\ Abs(r.playerTwo.angleRadians) <= MaxTurnTicks * 600
    /\ r.playerOne.scoreSeconds <= MaxScoreTicks * 600
    /\ r.playerTwo.scoreSeconds <= MaxScoreTicks * 600

\* the assignments of a step whose result is r
StepApply(r) ==
    /\ playerOne' = r.playerOne
    /\ playerTwo' = r.playerTwo
    /\ trailMask' = r.trailMask
    /\ isMoving' = r.isMoving
    /\ hasRoundEnded' = r.hasRoundEnded
    /\ hud' = [playerOneScore |-> r.playerOne.scoreSeconds,
               playerTwoScore |-> r.playerTwo.scoreSeconds,
               statusText |-> r.statusText,
               isRunning |-> r.isMoving /\ ~r.hasRoundEnded]
    /\ UNCHANGED <<pressedKeys, canvas>>

StepWith(dt, drawOne, drawTwo) ==
    \E r \in StepResults(dt, drawOne, drawTwo) :
        /\ WithinBounds(r)
        /\ StepApply(r)
        /\ lastStep' = r.lastStep

\* updateGap calls randomInRange only when it makes a transition, and the
\* step calls updateGap only for a living player of a Running round: the
\* Math.random() values one step can consume for a player (a placeholder
\* when it consumes none)
StepDraws(player, dt) ==
    IF /\ isMoving /\ ~hasRoundEnded /\ player.isAlive /\ gapsEnabled
       /\ IF player.gap.isActive
          THEN player.gap.remainingGapTime - dt <= 0
          ELSE player.gap.timeUntilNextGap - dt <= 0
    THEN GapDraws
    ELSE {<<0, 1>>}

\* a step of the frame callback with delta time dt
StepOf(dt) ==
    \E drawOne \in StepDraws(playerOne, dt), drawTwo \in StepDraws(playerTwo, dt) :
        StepWith(dt, drawOne, drawTwo)

Step == \E dt \in DeltaTimes : StepOf(dt)

Next ==
    \/ Step
    \/ Toggle
    \/ ToggleEnded
    \/ Restart
    \/ Resize
    \/ KeyDown
    \/ KeyUp

Spec == Init /\ [][Next]_vars

(***************************************************************************)
(* Observations used by the properties                                     *)
(***************************************************************************)
\* the round status of the design: Idle, Running, Paused, Ended
Status ==
    IF hasRoundEnded THEN "Ended"
    ELSE IF isMoving THEN "Running"
    ELSE IF hud.statusText = StatusPaused THEN "Paused"
    ELSE "Idle"

\* the transition is a frame step of a Running round with delta time dt (the
\* history variable and the untouched key set are tested first)
RunningStep(dt) ==
    /\ isMoving /\ ~hasRoundEnded
    /\ lastStep'.from = "step"
    /\ pressedKeys' = pressedKeys
    /\ StepOf(dt)

\* the transition is a frame step
AnyStep ==
    /\ lastStep'.from = "step"
    /\ pressedKeys' = pressedKeys
    /\ Step

\* the safe rectangle of a w x h surface, 1/1000 pixel
SafeLow == (insetPixels + thicknessPixels + radiusPixels) * 1000
SafeHigh(size) == (size - insetPixels - thicknessPixels - radiusPixels) * 1000
InsideSafe(pos, w, h) ==
    /\ SafeLow <= pos.x /\ pos.x <= SafeHigh(w)
    /\ SafeLow <= pos.y /\ pos.y <= SafeHigh(h)

\* array indices of the in-grid cells within radiusPixels of point c
StampCells(c, w, h) ==
    { cell[2] * w + cell[1] :
        cell \in { d \in ((c.x - radiusPixels)..(c.x + radiusPixels))
                           \X ((c.y - radiusPixels)..(c.y + radiusPixels)) :
                     /\ d[1] >= 0 /\ d[1] < w /\ d[2] >= 0 /\ d[2] < h
                     /\ (d[1] - c.x) * (d[1] - c.x) + (d[2] - c.y) * (d[2] - c.y)
                          <= radiusPixels * radiusPixels } }

\* some occupied in-grid cell within radiusPixels of c is farther than
\* radius + max(trail margin, corridor margin) from every point of pts
UnexcusedHit(occupancy, w, h, c, pts) ==
    \E x \in (c.x - radiusPixels)..(c.x + radiusPixels) :
    \E y \in (c.y - radiusPixels)..(c.y + radiusPixels) :
        /\ x >= 0 /\ x < w /\ y >= 0 /\ y < h
        /\ (x - c.x) * (x - c.x) + (y - c.y) * (y - c.y) <= radiusPixels * radiusPixels
        /\ (y * w + x) \in occupancy
        /\ \A i \in 1..Len(pts) :
              ((x - pts[i].x) * (x - pts[i].x) + (y - pts[i].y) * (y - pts[i].y)) * 10000
                > (radiusPixels * 100
                     + Max(extraIgnoreMarginPixels, corridorExtraMarginPixels))
                  * (radiusPixels * 100
                     + Max(extraIgnoreMarginPixels, corridorExtraMarginPixels))

\* the candidate positions of the two players in a frame with delta time dt
CandidateOne(dt) ==
    NextPosition(Rotate(playerOne, playerOneTurnLeftKey, playerOneTurnRightKey, dt), dt)
CandidateTwo(dt) ==
    NextPosition(Rotate(playerTwo, playerTwoTurnLeftKey, playerTwoTurnRightKey, dt), dt)

\* position, score and buffers of a player are the same in a and b
SameBody(a, b) ==
    /\ a.positionPixels = b.positionPixels
    /\ a.scoreSeconds = b.scoreSeconds
    /\ a.recentPositions = b.recentPositions
    /\ a.gapCorridor = b.gapCorridor

\* in the step just taken: the cells player one / player two stamped
StampedByOne ==
    IF lastStep'.one = "solid"
    THEN StampCells(RoundedPoint(playerOne'.positionPixels),
                    canvas.clientWidth, canvas.clientHeight)
    ELSE {}
StampedByTwo ==
    IF lastStep'.two = "solid"
    THEN StampCells(RoundedPoint(playerTwo'.positionPixels),
                    canvas.clientWidth, canvas.clientHeight)
    ELSE {}

RunningNow == isMoving /\ ~hasRoundEnded

(***************************************************************************)
(* C1                                                                      *)
(***************************************************************************)
\* C1: the round is Ended exactly when both players are dead; no toggle or
\* turn-key input produces Ended; a step of a Running round that leaves a
\* player alive leaves the round Running.
C1_EndedIffBothDead ==
    /\ [](hasRoundEnded <=> (~playerOne.isAlive /\ ~playerTwo.isAlive))
    /\ [][(Toggle \/ ToggleEnded \/ KeyDown \/ KeyUp)
            => (hasRoundEnded' = hasRoundEnded)]_vars
    /\ [][(RunningNow /\ AnyStep /\ (playerOne'.isAlive \/ playerTwo'.isAlive))
            => (isMoving' /\ ~hasRoundEnded')]_vars

\* the round ended on the large surface, the second player dying later
C1_Witness ==
    /\ hasRoundEnded
    /\ canvas.clientWidth = 124
    /\ playerOne.scoreSeconds < playerTwo.scoreSeconds

(***************************************************************************)
(* C2                                                                      *)
(***************************************************************************)
C2_Body(dt) ==
    LET w == canvas.clientWidth
        h == canvas.clientHeight
        mid == trailMask.occupancy \cup StampedByOne
    IN  /\ ( /\ playerOne.isAlive
             /\ UnexcusedHit(trailMask.occupancy, w, h, RoundedPoint(CandidateOne(dt)),
                             playerOne.recentPositions \o playerOne.gapCorridor
                               \o playerTwo.gapCorridor) )
           => /\ ~playerOne'.isAlive
              /\ SameBody(playerOne, playerOne')
              /\ trailMask'.occupancy = trailMask.occupancy \cup StampedByTwo
        /\ ( /\ playerTwo.isAlive
             /\ UnexcusedHit(mid, w, h, RoundedPoint(CandidateTwo(dt)),
                             playerTwo.recentPositions \o playerTwo.gapCorridor
                               \o playerOne'.gapCorridor) )
           => /\ ~playerTwo'.isAlive
              /\ SameBody(playerTwo, playerTwo')
              /\ trailMask'.occupancy = mid

\* C2: a living player of a Running step whose candidate circle covers an
\* occupied cell not excused by its recent buffer or by either gap corridor
\* dies in that step, and its position, score and buffers and the mask are
\* not changed by its move.
C2_TrailCollisionKills ==
    [][\A dt \in DeltaTimes : RunningStep(dt) => C2_Body(dt)]_vars

\* player one has just died on a trail inside the safe rectangle
C2_Witness ==
    /\ lastStep.one = "trail"
    /\ ~playerOne.isAlive
    /\ InsideSafe(playerOne.positionPixels, canvas.clientWidth, canvas.clientHeight)

(***************************************************************************)
(* C3                                                                      *)
(***************************************************************************)
C3_Body(dt) ==
    LET w == canvas.clientWidth
        h == canvas.clientHeight
        mid == trailMask.occupancy \cup StampedByOne
    IN  /\ (playerOne.isAlive /\ ~InsideSafe(CandidateOne(dt), w, h))
           => /\ ~playerOne'.isAlive
              /\ SameBody(playerOne, playerOne')
              /\ trailMask'.occupancy = trailMask.occupancy \cup StampedByTwo
        /\ (playerTwo.isAlive /\ ~InsideSafe(CandidateTwo(dt), w, h))
           => /\ ~playerTwo'.isAlive
              /\ SameBody(playerTwo, playerTwo')
              /\ trailMask'.occupancy = mid
        /\ ( /\ playerOne.isAlive /\ InsideSafe(CandidateOne(dt), w, h)
             /\ ~UnexcusedHit(trailMask.occupancy, w, h, RoundedPoint(CandidateOne(dt)),
                              playerOne.recentPositions \o playerOne.gapCorridor
                                \o playerTwo.gapCorridor) )
           => (playerOne'.isAlive /\ playerOne'.positionPixels = CandidateOne(dt))
        /\ ( /\ playerTwo.isAlive /\ InsideSafe(CandidateTwo(dt), w, h)
             /\ ~UnexcusedHit(mid, w, h, RoundedPoint(CandidateTwo(dt)),
                              playerTwo.recentPositions \o playerTwo.gapCorridor
                                \o playerOne'.gapCorridor) )
           => (playerTwo'.isAlive /\ playerTwo'.positionPixels = CandidateTwo(dt))

\* the boundary check at the four edges of the safe rectangle of each surface:
\* a point on the edge passes, a point one position unit outside does not
C3_Edges ==
    \A s \in Surfaces :
        LET w == s[1]
            h == s[2]
        IN  (SafeLow <= SafeHigh(w) /\ SafeLow <= SafeHigh(h)) =>
              /\ ~hitsBorder(SafeLow, SafeLow, w, h, radiusPixels)
              /\ ~hitsBorder(SafeHigh(w), SafeHigh(h), w, h, radiusPixels)
              /\ hitsBorder(SafeLow - 1, SafeLow, w, h, radiusPixels)
              /\ hitsBorder(SafeLow, SafeLow - 1, w, h, radiusPixels)
              /\ hitsBorder(SafeHigh(w) + 1, SafeHigh(h), w, h, radiusPixels)
              /\ hitsBorder(SafeHigh(w), SafeHigh(h) + 1, w, h, radiusPixels)

\* C3: a living player of a Running step whose candidate lies outside the
\* safe rectangle dies, its position, score and buffers and the mask not
\* changed by its move; a candidate inside the rectangle, its edge included,
\* passes the boundary check (the player moves there unless a trail kills it).
C3_BorderKills ==
    /\ [][\A dt \in DeltaTimes : RunningStep(dt) => C3_Body(dt)]_vars
    /\ []C3_Edges

\* player one was accepted exactly on the right edge of the safe rectangle
\* and died at the border in the next step
C3_Witness ==
    /\ lastStep.one = "border"
    /\ ~playerOne.isAlive
    /\ playerOne.scoreSeconds > 0
    /\ playerOne.positionPixels.x = SafeHigh(canvas.clientWidth)

(***************************************************************************)
(* C4                                                                      *)
(***************************************************************************)
\* C4: in every reachable state each living player's position lies inside
\* the safe rectangle of the surface.
C4_AliveInsideSafe ==
    /\ playerOne.isAlive
         => InsideSafe(playerOne.positionPixels, canvas.clientWidth, canvas.clientHeight)
    /\ playerTwo.isAlive
         => InsideSafe(playerTwo.positionPixels, canvas.clientWidth, canvas.clientHeight)

(***************************************************************************)
(* C5                                                                      *)
(***************************************************************************)
\* C5: the toggle input takes Idle and Paused to Running and Running to
\* Paused and changes nothing else of the round.
C5_ToggleOnlyFlipsStatus ==
    /\ [][Toggle =>
            /\ (Status \in {"Idle", "Paused"}) => (Status' = "Running")
            /\ (Status = "Running") => (Status' = "Paused")
            /\ UNCHANGED <<playerOne, playerTwo, trailMask, hasRoundEnded, canvas>>]_vars
    /\ []((Status \in {"Idle", "Paused"}) => ENABLED (Toggle /\ Status' = "Running"))
    /\ []((Status = "Running") => ENABLED (Toggle /\ Status' = "Paused"))

\* a round paused after a move of player one
C5_Witness ==
    /\ Status = "Paused"
    /\ playerOne.scoreSeconds > 0

(***************************************************************************)
(* C6                                                                      *)
(***************************************************************************)
FreshPlayer(player, w, h) ==
    /\ player.isAlive
    /\ player.scoreSeconds = 0
    /\ player.angleRadians = 0
    /\ ~player.gap.isActive
    /\ player.gap.timeUntilNextGap >= minIntervalSeconds
    /\ player.gap.timeUntilNextGap <= maxIntervalSeconds
    /\ player.gapCorridor = <<>>
    /\ InsideSafe(player.positionPixels, w, h)

\* C6: a restart input in any round state yields a fresh Idle round: not
\* moving, not ended, both players alive with score zero and heading zero,
\* both gap schedulers Solid with a countdown within the interval bounds,
\* empty gap corridors, spawn positions inside the safe rectangle.
C6_RestartYieldsFreshIdle ==
    [][Restart =>
         /\ ~isMoving' /\ ~hasRoundEnded' /\ Status' = "Idle"
         /\ FreshPlayer(playerOne', canvas'.clientWidth, canvas'.clientHeight)
         /\ FreshPlayer(playerTwo', canvas'.clientWidth, canvas'.clientHeight)]_vars

(***************************************************************************)
(* C7                                                                      *)
(***************************************************************************)
\* the transition is a restart of an ended round: a reset (the history
\* variable says so) that keeps the surface size
RestartFromEnded ==
    /\ hasRoundEnded
    /\ lastStep'.from = "Ended"
    /\ canvas' = canvas

\* C7 as claimed: right after a restart from Ended no cell is occupied.
C7_EmptyAfterRestart ==
    [][RestartFromEnded => (trailMask'.occupancy = {})]_vars

\* C7: right after a restart from Ended the mask holds nothing of the ended
\* round: its occupied cells are exactly the in-grid cells of the two spawn
\* stamps, the circles of radius 2 at the rounded spawn positions.
C7_OnlySpawnStampsAfterRestart ==
    [][RestartFromEnded =>
         trailMask'.occupancy =
             StampCells(RoundedPoint(playerOne'.positionPixels),
                        canvas'.clientWidth, canvas'.clientHeight)
               \cup StampCells(RoundedPoint(playerTwo'.positionPixels),
                               canvas'.clientWidth, canvas'.clientHeight)]_vars

\* a round restarted from Ended on the large surface
C7_Witness ==
    /\ lastStep.from = "Ended"
    /\ canvas.clientWidth = 124
    /\ trailMask.occupancy # {}

(***************************************************************************)
(* C8                                                                      *)
(***************************************************************************)
C8_Body(dt) ==
    LET w == canvas.clientWidth
        h == canvas.clientHeight
        mid == trailMask.occupancy \cup StampedByOne
    IN  (playerOne.isAlive /\ playerTwo.isAlive) =>
          /\ playerOne'.isAlive <=>
               /\ InsideSafe(CandidateOne(dt), w, h)
               /\ ~UnexcusedHit(trailMask.occupancy, w, h, RoundedPoint(CandidateOne(dt)),
                                playerOne.recentPositions \o playerOne.gapCorridor
                                  \o playerTwo.gapCorridor)
          /\ playerTwo'.isAlive <=>
               /\ InsideSafe(CandidateTwo(dt), w, h)
               /\ ~UnexcusedHit(mid, w, h, RoundedPoint(CandidateTwo(dt)),
                                playerTwo.recentPositions \o playerTwo.gapCorridor
                                  \o playerOne'.gapCorridor)

\* C8: in a Running step with both players alive, player one survives exactly
\* when its candidate passes the checks against the mask and the corridors as
\* they were before the step, and player two survives exactly when its
\* candidate passes the checks against the mask including player one's stamp
\* of this step and player one's corridor including its point of this step.
C8_PlayerOneResolvedFirst ==
    [][\A dt \in DeltaTimes : RunningStep(dt) => C8_Body(dt)]_vars

\* both players spawned on the same point and took their first step: player
\* one moved and stamped, player two died on that stamp
C8_Witness ==
    /\ lastStep.one = "solid" /\ lastStep.two = "trail"
    /\ playerOne.scoreSeconds > 0 /\ playerTwo.scoreSeconds = 0
    /\ Len(playerOne.recentPositions) = 2
    /\ playerOne.recentPositions[1] = playerTwo.recentPositions[1]

(***************************************************************************)
(* C9                                                                      *)
(***************************************************************************)
\* the effect of a committed move of a player, from before to after
C9_Commit(before, after, dt) ==
    /\ after.scoreSeconds = before.scoreSeconds + dt
    /\ IF ~after.gap.isActive
       THEN /\ after.gapCorridor = before.gapCorridor
            /\ Len(after.recentPositions) >= 1
            /\ after.recentPositions[Len(after.recentPositions)]
                 = RoundedPoint(after.positionPixels)
            /\ \/ after.recentPositions
                    = Append(before.recentPositions, RoundedPoint(after.positionPixels))
               \/ /\ Len(before.recentPositions) = recentIgnoreFrameCount
                  /\ after.recentPositions
                       = Append(Tail(before.recentPositions),
                                RoundedPoint(after.positionPixels))
            /\ StampCells(RoundedPoint(after.positionPixels),
                          canvas.clientWidth, canvas.clientHeight)
                 \subseteq trailMask'.occupancy
       ELSE /\ after.recentPositions = before.recentPositions
            /\ after.gapCorridor
                 = Append(before.gapCorridor, RoundedPoint(after.positionPixels))

C9_Body(dt) ==
    /\ (playerOne.isAlive /\ playerOne'.isAlive)
         => (lastStep'.one = (IF playerOne'.gap.isActive THEN "gap" ELSE "solid")
               /\ C9_Commit(playerOne, playerOne', dt))
    /\ (playerTwo.isAlive /\ playerTwo'.isAlive)
         => (lastStep'.two = (IF playerTwo'.gap.isActive THEN "gap" ELSE "solid")
               /\ C9_Commit(playerTwo, playerTwo', dt))
    /\ trailMask'.occupancy = (trailMask.occupancy \cup StampedByOne) \cup StampedByTwo
    /\ trailMask'.widthPixels = trailMask.widthPixels
    /\ trailMask'.heightPixels = trailMask.heightPixels

\* C9: a committed move of a Running step in Solid marks the circle at the
\* rounded position and pushes that position to the recent buffer, leaving
\* the gap corridor; in Gap it pushes the rounded position to the gap
\* corridor, leaving the mask and the recent buffer; the score grows by the
\* delta time in both cases.
C9_CommitEffects ==
    [][\A dt \in DeltaTimes : RunningStep(dt) => C9_Body(dt)]_vars

\* one step committed a gap move of player one and a solid move of player two
C9_Witness ==
    /\ lastStep.one = "gap" /\ lastStep.two = "solid"
    /\ playerOne.gapCorridor # <<>>
    /\ playerOne.isAlive /\ playerTwo.isAlive

(***************************************************************************)
(* C10                                                                     *)
(***************************************************************************)
C10_Body(before, after) ==
    /\ before.isAlive => after.scoreSeconds >= before.scoreSeconds
    /\ ~before.isAlive => after.scoreSeconds = before.scoreSeconds

\* C10: in every step that is not a reset, a living player's score does not
\* decrease and a dead player's score does not change.
C10_ScoreMonotoneThenFrozen ==
    [][(AnyStep \/ Toggle \/ ToggleEnded \/ KeyDown \/ KeyUp)
         => (C10_Body(playerOne, playerOne') /\ C10_Body(playerTwo, playerTwo'))]_vars

\* player one died with a positive score, player two scored on, and a later
\* step found player one dead
C10_Witness ==
    /\ ~playerOne.isAlive /\ playerOne.scoreSeconds > 0
    /\ playerTwo.scoreSeconds > playerOne.scoreSeconds
    /\ lastStep.one = "dead"

(***************************************************************************)
(* C11: the two buffers on their own                                       *)
(***************************************************************************)
\* pushes explored on the recent buffer and on the gap corridor of one player
MaxRecentPushes == 12
MaxGapPushes == 602

\* the n-th point pushed to a buffer; the points are numbered so that every
\* pushed point is distinguishable and the eviction order is observable
BufPoint(n) == [x |-> 10 + (n % 100), y |-> 10 + (n \div 100)]

\* The round after construction; the history variable holds every point ever
\* pushed to each buffer of player one since the reset, in push order.
BufInit ==
    \E r \in {resetRound(124, 124, <<<<0, 1>>, <<0, 1>>, <<0, 1>>, <<0, 1>>,
                                     <<0, 1>>, <<0, 1>>>>)} :
        /\ canvas = r.canvas
        /\ trailMask = r.trailMask
        /\ playerOne = r.playerOne
        /\ playerTwo = r.playerTwo
        /\ isMoving = r.isMoving
        /\ hasRoundEnded = r.hasRoundEnded
        /\ hud = r.hud
        /\ pressedKeys = {}
        /\ lastStep = [pushedRecent |-> r.playerOne.recentPositions,
                       pushedGap |-> r.playerOne.gapCorridor]

\* one pushRecent call on player one
BufPushRecent ==
    /\ Len(lastStep.pushedRecent) < MaxRecentPushes
    /\ \E point \in {BufPoint(Len(lastStep.pushedRecent))} :
          /\ playerOne' = pushRecent(playerOne, point)
          /\ lastStep' = [lastStep EXCEPT !.pushedRecent = Append(@, point)]
    /\ UNCHANGED <<isMoving, hasRoundEnded, trailMask, playerTwo, pressedKeys,
                   hud, canvas>>

\* one pushGapCorridor call on player one
BufPushGap ==
    /\ Len(lastStep.pushedGap) < MaxGapPushes
    /\ \E point \in {BufPoint(Len(lastStep.pushedGap))} :
          /\ playerOne' = pushGapCorridor(playerOne, point)
          /\ lastStep' = [lastStep EXCEPT !.pushedGap = Append(@, point)]
    /\ UNCHANGED <<isMoving, hasRoundEnded, trailMask, playerTwo, pressedKeys,
                   hud, canvas>>

BufNext ==
    \/ BufPushRecent
    \/ BufPushGap

SpecBuffers == BufInit /\ [][BufNext]_vars

\* the last n elements of sequence s, all of it when it is shorter
LastOf(s, n) == SubSeq(s, Max(1, Len(s) - n + 1), Len(s))

\* C11: the recent buffer never holds more than 10 points and the gap
\* corridor never more than 600, and each buffer is the most recently pushed
\* points in push order: an overflowing push evicts the oldest entry.
C11_BuffersBoundedFifo ==
    /\ Len(playerOne.recentPositions) <= 10
    /\ Len(playerOne.gapCorridor) <= 600
    /\ playerOne.recentPositions = LastOf(lastStep.pushedRecent, recentIgnoreFrameCount)
    /\ playerOne.gapCorridor = LastOf(lastStep.pushedGap, corridorMaxPoints)

\* both buffers have overflowed, each more than once
C11_Witness ==
    /\ Len(lastStep.pushedRecent) = 12 /\ Len(playerOne.recentPositions) = 10
    /\ Len(lastStep.pushedGap) = 602 /\ Len(playerOne.gapCorridor) = 600

(***************************************************************************)
(* C12                                                                     *)
(***************************************************************************)
\* a step in which player me does not translate: its position, score and
\* buffers stay, and the mask gains at most the stamp of the other player
C12_Body(me, meAfter, otherAfter) ==
    /\ SameBody(me, meAfter)
    /\ trailMask'.occupancy \subseteq
         trailMask.occupancy
           \cup StampCells(RoundedPoint(otherAfter.positionPixels),
                           canvas.clientWidth, canvas.clientHeight)

\* C12: a frame step of a round that is not Running leaves both players'
\* position, score, recent buffer and gap corridor and the mask unchanged; a
\* frame step of a Running round leaves those of a dead player unchanged, and
\* the dead player adds no mark to the mask.
C12_NoTranslationUnlessRunningAlive ==
    [][AnyStep =>
         /\ ~RunningNow =>
              /\ SameBody(playerOne, playerOne')
              /\ SameBody(playerTwo, playerTwo')
              /\ trailMask' = trailMask
         /\ (RunningNow /\ ~playerOne.isAlive)
              => C12_Body(playerOne, playerOne', playerTwo')
         /\ (RunningNow /\ ~playerTwo.isAlive)
              => C12_Body(playerTwo, playerTwo', playerOne')]_vars

\* a Running step found player one dead while player two moved and stamped
C12_Witness ==
    /\ lastStep.one = "dead" /\ lastStep.two = "solid"
    /\ isMoving /\ ~playerOne.isAlive /\ playerTwo.isAlive

(***************************************************************************)
(* C13                                                                     *)
(***************************************************************************)
\* C13: a frame step changes a player's gap scheduler only when the round is
\* Running and the player is alive at the start of the step, and then it is
\* the result of updateGap with the step's delta time; toggle and key inputs
\* never change it.
C13_GapFrozenUnlessRunningAlive ==
    /\ [][AnyStep =>
            /\ (~RunningNow \/ ~playerOne.isAlive) => (playerOne'.gap = playerOne.gap)
            /\ (~RunningNow \/ ~playerTwo.isAlive) => (playerTwo'.gap = playerTwo.gap)]_vars
    /\ [][\A dt \in DeltaTimes : RunningStep(dt) =>
            /\ playerOne.isAlive =>
                 /\ playerOne'.gap # playerOne.gap
                 /\ \E draw \in GapDraws : playerOne'.gap = updateGap(playerOne.gap, dt, draw)
            /\ playerTwo.isAlive =>
                 /\ playerTwo'.gap # playerTwo.gap
                 /\ \E draw \in GapDraws : playerTwo'.gap = updateGap(playerTwo.gap, dt, draw)]_vars
    /\ [][(Toggle \/ ToggleEnded \/ KeyDown \/ KeyUp)
            => (playerOne'.gap = playerOne.gap /\ playerTwo'.gap = playerTwo.gap)]_vars

\* a paused round in which a frame step has run after player two died with
\* its gap countdown partly used
C13_Witness ==
    /\ lastStep.one = "still" /\ lastStep.two = "still"
    /\ Status = "Paused"
    /\ ~playerTwo.isAlive /\ playerOne.isAlive
    /\ playerTwo.gap.timeUntilNextGap < minIntervalSeconds

(***************************************************************************)
(* C14: the gap scheduler on its own                                       *)
(***************************************************************************)
\* periods (Solid or Gap) a scheduler is followed through
MaxGapPeriods == 3

\* delta times of the scheduler's ticks, ms: a 60 Hz frame and a slow frame
GapDeltaTimes == {16, 600}
\* the values Math.random() returns to initGapState and updateGap
GapSpecDraws == { <<0, 1>>, <<1, 2>>, <<999, 1000>> }

\* The round after construction.  The history variable follows the scheduler
\* of player one: time is the sum of the delta times charged to the timer of
\* the current period, periods counts the periods that have ended, and
\* closedState, closedTime, closedLastDt describe the period that ended last:
\* its state, the sum of the delta times of its ticks, and the delta time of
\* its final tick.
GapInit ==
    \E draw \in GapSpecDraws :
    \E r \in {resetRound(124, 124, <<<<0, 1>>, <<0, 1>>, <<0, 1>>, <<0, 1>>,
                                     draw, <<0, 1>>>>)} :
        /\ canvas = r.canvas
        /\ trailMask = r.trailMask
        /\ playerOne = r.playerOne
        /\ playerTwo = r.playerTwo
        /\ isMoving = r.isMoving
        /\ hasRoundEnded = r.hasRoundEnded
        /\ hud = r.hud
        /\ pressedKeys = {}
        /\ lastStep = [time |-> 0, periods |-> 0, closedState |-> "none",
                       closedTime |-> 0, closedLastDt |-> 0]

\* one updateGap call on the scheduler of player one, as line 485 makes it
GapTick ==
    /\ lastStep.periods < MaxGapPeriods
    /\ \E dt \in GapDeltaTimes, draw \in GapSpecDraws :
       \E g \in {updateGap(playerOne.gap, dt, draw)} :
          /\ playerOne' = [playerOne EXCEPT !.gap = g]
          /\ lastStep' =
               IF g.isActive = playerOne.gap.isActive
               THEN [lastStep EXCEPT !.time = @ + dt]
               ELSE [time |-> 0, periods |-> lastStep.periods + 1,
                     closedState |-> IF playerOne.gap.isActive THEN "Gap" ELSE "Solid",
                     closedTime |-> lastStep.time + dt,
                     closedLastDt |-> dt]
    /\ UNCHANGED <<isMoving, hasRoundEnded, trailMask, playerTwo, pressedKeys,
                   hud, canvas>>

GapNext == GapTick

SpecGap == GapInit /\ [][GapNext]_vars

\* Solid and Gap periods alternate, starting from Solid
GapAlternation ==
    /\ playerOne.gap.isActive <=> (lastStep.periods % 2 = 1)
    /\ lastStep.periods > 0 =>
         lastStep.closedState = (IF playerOne.gap.isActive THEN "Solid" ELSE "Gap")

\* C14 as claimed: the first Solid period lasts a time within
\* [minInterval, maxInterval], every Gap period a time within
\* [minDuration, maxDuration], and the periods alternate starting from Solid.
C14_PeriodsWithinDrawnRanges ==
    /\ (lastStep.closedState = "Solid" /\ lastStep.periods = 1) =>
         /\ lastStep.closedTime >= minIntervalSeconds
         /\ lastStep.closedTime <= maxIntervalSeconds
    /\ lastStep.closedState = "Gap" =>
         /\ lastStep.closedTime >= minDurationSeconds
         /\ lastStep.closedTime <= maxDurationSeconds
    /\ GapAlternation

\* C14: measured as the sum of the delta times of the ticks charged to a
\* period, every Solid period lasts at least minInterval and every Gap period
\* at least minDuration, and each exceeds its upper limit (maxInterval,
\* maxDuration) by less than the delta time of its final tick; the periods
\* alternate starting from Solid.
C14_PeriodsWithinRangePlusLastTick ==
    /\ lastStep.closedState = "Solid" =>
         /\ lastStep.closedTime >= minIntervalSeconds
         /\ lastStep.closedTime - lastStep.closedLastDt < maxIntervalSeconds
    /\ lastStep.closedState = "Gap" =>
         /\ lastStep.closedTime >= minDurationSeconds
         /\ lastStep.closedTime - lastStep.closedLastDt < maxDurationSeconds
    /\ GapAlternation

\* a second Solid period has ended after more than one tick, and it lasted
\* longer than maxInterval
C14_Witness ==
    /\ lastStep.periods = 3 /\ lastStep.closedState = "Solid"
    /\ lastStep.closedTime > maxIntervalSeconds
    /\ lastStep.closedTime > lastStep.closedLastDt

(***************************************************************************)
(* C15: the round with all four turn keys                                  *)
(***************************************************************************)
AllTurnKeys == {playerOneTurnLeftKey, playerOneTurnRightKey,
                playerTwoTurnLeftKey, playerTwoTurnRightKey}

\* The round after construction on a 124 x 28 surface, both players spawned on
\* the same point: the safe rectangle is 8 pixels high, so a player that
\* moves with a heading off the x axis dies at the border.
TurnInit ==
    \E r \in {resetRound(124, 28, <<<<0, 1>>, <<0, 1>>, <<0, 1>>, <<0, 1>>,
                                     <<0, 1>>, <<0, 1>>>>)} :
        /\ canvas = r.canvas
        /\ trailMask = r.trailMask
        /\ playerOne = r.playerOne
        /\ playerTwo = r.playerTwo
        /\ isMoving = r.isMoving
        /\ hasRoundEnded = r.hasRoundEnded
        /\ hud = r.hud
        /\ pressedKeys = {}
        /\ lastStep = [one |-> "spawn", two |-> "spawn", from |-> "start"]

\* handleKeyDown with one of the four turn keys
TurnKeyDown ==
    \E key \in AllTurnKeys :
        /\ pressedKeys' = pressedKeys \cup {key}
        /\ UNCHANGED <<isMoving, hasRoundEnded, trailMask, playerOne, playerTwo,
                       hud, canvas, lastStep>>

TurnNext ==
    \/ Step
    \/ Toggle
    \/ ToggleEnded
    \/ TurnKeyDown
    \/ KeyUp

SpecTurn == TurnInit /\ [][TurnNext]_vars

\* the heading after a tick of delta time dt with the given keys consulted
Turned(angle, leftKey, rightKey, dt) ==
    angle + dt * ((IF rightKey \in pressedKeys THEN 1 ELSE 0)
                    - (IF leftKey \in pressedKeys THEN 1 ELSE 0))

\* C15: every frame step, in every round state and for living and dead
\* players alike, leaves each heading decreased by turnSpeed * dt if only the
\* player's turn-left key is down, increased by it if only the turn-right key
\* is down, and unchanged if both or neither are down; no other input changes
\* a heading.
C15_FreeRotation ==
    /\ [][\A dt \in DeltaTimes :
            (lastStep'.from = "step" /\ pressedKeys' = pressedKeys /\ StepOf(dt)) =>
              /\ playerOne'.angleRadians =
                   Turned(playerOne.angleRadians, playerOneTurnLeftKey,
                          playerOneTurnRightKey, dt)
              /\ playerTwo'.angleRadians =
                   Turned(playerTwo.angleRadians, playerTwoTurnLeftKey,
                          playerTwoTurnRightKey, dt)]_vars
    /\ [][(Toggle \/ ToggleEnded \/ TurnKeyDown \/ KeyUp) =>
            /\ playerOne'.angleRadians = playerOne.angleRadians
            /\ playerTwo'.angleRadians = playerTwo.angleRadians]_vars

\* an ended round whose last frame step moved nobody, with player one turned
\* left, player two turned right, and both keys of player one down
C15_Witness ==
    /\ hasRoundEnded /\ lastStep.from = "step" /\ lastStep.one = "still"
    /\ playerOne.angleRadians < 0 /\ playerTwo.angleRadians > 0
    /\ {playerOneTurnLeftKey, playerOneTurnRightKey} \subseteq pressedKeys

(***************************************************************************)
(* C16: two players heading at each other                                  *)
(***************************************************************************)
\* Player one spawns at (20, 20) on a 200 x 200 surface and player two on the
\* same row, 2, 3 or 30 pixels further right; both gap countdowns are 1200 ms.
\* Math.random() values of resetRound, as in ResetDraws.
HeadOnDistances == {2, 3, 30}
HeadOnDraws ==
    { <<<<10, 180>>, <<10, 180>>, <<10 + d, 180>>, <<10, 180>>, <<0, 1>>, <<0, 1>>>> :
        d \in HeadOnDistances }
\* delta times of the frames, ms: a 200 Hz frame, a 60 Hz frame, a slow frame
HeadOnDeltaTimes == {5, 16, 100}
\* the round is followed while every score stays within this play time, ms
MaxHeadOnTime == 300

\* The round after construction.  The history variable also holds the frame
\* period of the display, which every frame step of the run uses.
HeadOnInit ==
    \E draws \in HeadOnDraws, period \in HeadOnDeltaTimes :
    \E r \in {resetRound(200, 200, draws)} :
        /\ canvas = r.canvas
        /\ trailMask = r.trailMask
        /\ playerOne = r.playerOne
        /\ playerTwo = r.playerTwo
        /\ isMoving = r.isMoving
        /\ hasRoundEnded = r.hasRoundEnded
        /\ hud = r.hud
        /\ pressedKeys = {}
        /\ lastStep = [one |-> "spawn", two |-> "spawn", from |-> "start",
                       dt |-> period]

\* handleKeyDown with player two's turn-right key, before the round starts
HeadOnKeyDown ==
    /\ Status = "Idle" /\ playerTwo.angleRadians < 2000
    /\ pressedKeys' = pressedKeys \cup {playerTwoTurnRightKey}
    /\ UNCHANGED <<isMoving, hasRoundEnded, trailMask, playerOne, playerTwo,
                   hud, canvas, lastStep>>

\* a frame step of the Idle round while player two turns: two seconds of
\* frames turn it by half a turn, to face player one
HeadOnAim ==
    /\ Status = "Idle" /\ pressedKeys # {} /\ playerTwo.angleRadians < 2000
    /\ \E r \in StepResults(lastStep.dt, <<0, 1>>, <<0, 1>>) :
          /\ StepApply(r)
          /\ lastStep' = [one |-> r.lastStep.one, two |-> r.lastStep.two,
                          from |-> "step", dt |-> lastStep.dt]

\* the toggle key starts the round once player two faces player one and no
\* turn key is down
HeadOnStart ==
    /\ Status = "Idle" /\ pressedKeys = {} /\ playerTwo.angleRadians = 2000
    /\ Toggle

\* a frame step of the Running round, before any gap can begin
HeadOnStep ==
    /\ RunningNow
    /\ \E r \in StepResults(lastStep.dt, <<0, 1>>, <<0, 1>>) :
          /\ ~r.playerOne.gap.isActive /\ ~r.playerTwo.gap.isActive
          /\ r.playerOne.scoreSeconds <= MaxHeadOnTime
          /\ r.playerTwo.scoreSeconds <= MaxHeadOnTime
          /\ StepApply(r)
          /\ lastStep' = [one |-> r.lastStep.one, two |-> r.lastStep.two,
                          from |-> "step", dt |-> lastStep.dt]

HeadOnNext ==
    \/ HeadOnKeyDown
    \/ KeyUp
    \/ HeadOnAim
    \/ HeadOnStart
    \/ HeadOnStep

SpecHeadOn == HeadOnInit /\ [][HeadOnNext]_vars

\* the circles of the two players overlap: their centres are closer than two
\* radii (positions in 1/1000 pixel)
Overlap ==
    LET dx == playerOne.positionPixels.x - playerTwo.positionPixels.x
        dy == playerOne.positionPixels.y - playerTwo.positionPixels.y
    IN  dx * dx + dy * dy < (2 * radiusPixels * 1000) * (2 * radiusPixels * 1000)

\* C16: with player two facing player one on the same row, no turn key down
\* and no gap, a frame step of the Running round that starts with the two
\* circles overlapping and both players alive leaves at least one player dead.
C16_DeadWithinOneTickOfOverlap ==
    [][(RunningNow /\ playerOne.isAlive /\ playerTwo.isAlive /\ Overlap
          /\ lastStep'.from = "step" /\ HeadOnStep)
         => ~(playerOne'.isAlive /\ playerTwo'.isAlive)]_vars

(***************************************************************************)
(* C17 - C20: the trail mask functions on their own                        *)
(***************************************************************************)
\* width and height of the grid
MaskSurface == <<5, 4>>
\* centres of marks and queries: inside the grid, on its corners, outside it
MaskCenters == { [x |-> 0, y |-> 0], [x |-> 2, y |-> 2], [x |-> 4, y |-> 3],
                 [x |-> -1, y |-> 1], [x |-> 5, y |-> 1], [x |-> 2, y |-> -1] }
MaskRadii == {0, 1, 2}
\* the marks <<centerX, centerY, radius>> that made the mask the run starts with
MaskSeeds == { <<>>,
               << <<2, 2, 1>> >>,
               << <<0, 0, 2>>, <<4, 3, 0>> >>,
               << <<1, 1, 2>>, <<3, 2, 2>> >> }
\* the exclusion lists of a query: none, one point, two points in both orders
MaskIgnoreLists ==
    {<<>>} \cup { <<p>> : p \in MaskCenters }
           \cup { <<a, b>> : a \in { [x |-> 0, y |-> 0], [x |-> 2, y |-> 2] },
                             b \in { [x |-> 4, y |-> 3], [x |-> 2, y |-> 2] } }
           \cup { <<b, a>> : a \in { [x |-> 0, y |-> 0], [x |-> 2, y |-> 2] },
                             b \in { [x |-> 4, y |-> 3], [x |-> 2, y |-> 2] } }
\* the extra margins of a query with radius r, 1/100 pixel: none, the
\* margin the step passes, and r itself
MaskMargins(r) == {0, Max(extraIgnoreMarginPixels, corridorExtraMarginPixels), r * 100}

RECURSIVE MaskOf(_, _)
\* the mask left by the marks of seed on mask tm
MaskOf(tm, seed) ==
    IF seed = <<>> THEN tm
    ELSE MaskOf(markVisitedCircle(tm, seed[1][1], seed[1][2], seed[1][3]), Tail(seed))

\* the query field of the history variable while no query has been made
NoQuery == [center |-> [x |-> 0, y |-> 0], r |-> 0, ignored |-> <<>>, margin |-> 0]

\* The program on a 5 x 4 window, its mask holding the marks of a seed.  The
\* history variable holds the last markVisitedCircle call of the run (centre,
\* radius, the occupancy before it) and the last query made since (its
\* arguments and its result).
MaskInit ==
    \E seed \in MaskSeeds :
    \E r \in {resetRound(MaskSurface[1], MaskSurface[2],
                         <<<<0, 1>>, <<0, 1>>, <<0, 1>>, <<0, 1>>, <<0, 1>>, <<0, 1>>>>)} :
        /\ canvas = r.canvas
        /\ trailMask = MaskOf(r.trailMask, seed)
        /\ playerOne = r.playerOne
        /\ playerTwo = r.playerTwo
        /\ isMoving = r.isMoving
        /\ hasRoundEnded = r.hasRoundEnded
        /\ hud = r.hud
        /\ pressedKeys = {}
        /\ lastStep = [marked |-> FALSE, center |-> [x |-> 0, y |-> 0], r |-> 0,
                       before |-> {}, queried |-> FALSE, q |-> NoQuery,
                       result |-> FALSE]

\* one markVisitedCircle call
MaskMark ==
    /\ ~lastStep.marked
    /\ \E c \in MaskCenters, r \in MaskRadii :
          /\ trailMask' = markVisitedCircle(trailMask, c.x, c.y, r)
          /\ lastStep' = [lastStep EXCEPT !.marked = TRUE, !.center = c, !.r = r,
                                          !.before = trailMask.occupancy,
                                          !.queried = FALSE, !.q = NoQuery,
                                          !.result = FALSE]
    /\ UNCHANGED <<isMoving, hasRoundEnded, playerOne, playerTwo, pressedKeys,
                   hud, canvas>>

\* one collidesWithTrailExcludingPoints call, on a mask not queried since its
\* last change
MaskQuery ==
    /\ ~lastStep.queried
    /\ \E c \in MaskCenters, r \in MaskRadii, ignored \in MaskIgnoreLists :
       \E margin \in MaskMargins(r) :
          lastStep' = [lastStep EXCEPT
                         !.queried = TRUE,
                         !.q = [center |-> c, r |-> r, ignored |-> ignored,
                                margin |-> margin],
                         !.result = collidesScan(trailMask, c, r, ignored, margin)]
    /\ UNCHANGED <<isMoving, hasRoundEnded, trailMask, playerOne, playerTwo,
                   pressedKeys, hud, canvas>>

MaskNext ==
    \/ MaskMark
    \/ MaskQuery

SpecMask == MaskInit /\ [][MaskNext]_vars

\* the point lies on a cell of the grid
InGrid(c) ==
    /\ 0 <= c.x /\ c.x < trailMask.widthPixels
    /\ 0 <= c.y /\ c.y < trailMask.heightPixels

\* array indices of the cells of the grid within r of centre c
DiscCells(c, r) ==
    { y * trailMask.widthPixels + x :
        <<x, y>> \in { d \in (0..(trailMask.widthPixels - 1))
                               \X (0..(trailMask.heightPixels - 1)) :
                         (d[1] - c.x) * (d[1] - c.x) + (d[2] - c.y) * (d[2] - c.y)
                           <= r * r } }

\* the last query was made right after the last mark, at its centre and with
\* its radius, with margin r and the given exclusion list
QueriedTheMark(ignored) ==
    /\ lastStep.marked /\ lastStep.queried
    /\ lastStep.q.center = lastStep.center
    /\ lastStep.q.r = lastStep.r
    /\ lastStep.q.margin = lastStep.r * 100
    /\ lastStep.q.ignored = ignored

(***************************************************************************)
(* C17                                                                     *)
(***************************************************************************)
\* C17: after markVisitedCircle at a centre on the grid with any radius, on
\* any mask, the query at the same centre and radius with no excluded point
\* and margin r returns true.
C17_MarkThenQueryCollides ==
    (QueriedTheMark(<<>>) /\ InGrid(lastStep.center)) => lastStep.result

\* the mark was a single cell in the corner of an empty grid
C17_Witness ==
    /\ QueriedTheMark(<<>>) /\ InGrid(lastStep.center)
    /\ lastStep.r = 0 /\ lastStep.center.x = 4 /\ lastStep.before = {}
    /\ lastStep.result

(***************************************************************************)
(* C18                                                                     *)
(***************************************************************************)
\* C18: after markVisitedCircle(p, r), for any point p, the query at p with
\* radius r, exclusion list [p] and margin r returns false.
C18_SelfExclusionNeutralizes ==
    QueriedTheMark(<<lastStep.center>>) => ~lastStep.result

\* the circle was marked over older marks and the query without the excluded
\* point would have collided
C18_Witness ==
    /\ QueriedTheMark(<<lastStep.center>>)
    /\ lastStep.r = 2 /\ lastStep.before # {}
    /\ ~lastStep.result
    /\ collidesScan(trailMask, lastStep.center, lastStep.r, <<>>, lastStep.r * 100)

(***************************************************************************)
(* C19                                                                     *)
(***************************************************************************)
\* some occupied cell of the grid within r of the centre is farther than
\* r + margin from every excluded point
UnexcusedCell(c, r, ignored, margin) ==
    \E x \in 0..(trailMask.widthPixels - 1), y \in 0..(trailMask.heightPixels - 1) :
        /\ (y * trailMask.widthPixels + x) \in trailMask.occupancy
        /\ (x - c.x) * (x - c.x) + (y - c.y) * (y - c.y) <= r * r
        /\ \A i \in 1..Len(ignored) :
              ((x - ignored[i].x) * (x - ignored[i].x)
                 + (y - ignored[i].y) * (y - ignored[i].y)) * 10000
                > (r * 100 + margin) * (r * 100 + margin)

Reverse(s) == [i \in 1..Len(s) |-> s[Len(s) + 1 - i]]

\* C19: the query returns true exactly when some occupied cell of the grid
\* within the radius of the centre is farther than radius + margin from every
\* excluded point; the excluded points in reverse order give the same result,
\* and so does the query in the form the frame step of the model uses.
C19_QueryIsExistence ==
    lastStep.queried =>
      /\ lastStep.result
           = UnexcusedCell(lastStep.q.center, lastStep.q.r, lastStep.q.ignored,
                           lastStep.q.margin)
      /\ lastStep.result
           = collidesScan(trailMask, lastStep.q.center, lastStep.q.r,
                          Reverse(lastStep.q.ignored), lastStep.q.margin)
      /\ lastStep.result
           = collidesWithTrailExcludingPoints(trailMask, lastStep.q.center, lastStep.q.r,
                                              lastStep.q.ignored, lastStep.q.margin)

\* a query that found no collision because its two excluded points together
\* excuse every occupied cell of the circle, which neither does alone
C19_Witness ==
    /\ lastStep.queried /\ ~lastStep.result
    /\ Len(lastStep.q.ignored) = 2
    /\ collidesScan(trailMask, lastStep.q.center, lastStep.q.r,
                    <<lastStep.q.ignored[1]>>, lastStep.q.margin)
    /\ collidesScan(trailMask, lastStep.q.center, lastStep.q.r,
                    <<lastStep.q.ignored[2]>>, lastStep.q.margin)

(***************************************************************************)
(* C20                                                                     *)
(***************************************************************************)
\* C20: markVisitedCircle leaves occupied exactly the cells that were
\* occupied before and the cells of the grid within the radius of the centre,
\* every index inside the array; with radius 0 and the centre on the grid the
\* only cell it can add is the centre's.
C20_MarkIsClippedDisc ==
    lastStep.marked =>
      /\ trailMask.occupancy = lastStep.before \cup DiscCells(lastStep.center, lastStep.r)
      /\ trailMask.occupancy
           \subseteq 0..(trailMask.widthPixels * trailMask.heightPixels - 1)
      /\ (lastStep.r = 0 /\ InGrid(lastStep.center)) =>
           trailMask.occupancy
             = lastStep.before
                 \cup {lastStep.center.y * trailMask.widthPixels + lastStep.center.x}

\* a circle centred outside the grid was marked over older marks, and the
\* part of it on the grid added cells
C20_Witness ==
    /\ lastStep.marked /\ ~lastStep.queried
    /\ lastStep.center.x = 5 /\ lastStep.r = 2
    /\ lastStep.before # {}
    /\ trailMask.occupancy # lastStep.before

(***************************************************************************)
(* C21 - C22: one player crosses the gap of the other                      *)
(***************************************************************************)
\* Player one spawns at (20, 150) on a 200 x 200 surface and runs along its
\* row; its gap countdown is 1200 ms.  Player two spawns above that row, in
\* one of the columns below, turns a quarter turn before the round starts and
\* runs down its column; its gap countdown is 2100 ms, so that it stays
\* solid, or 1200 ms, so that it is in its own gap around the crossing.
\* Math.random() values of resetRound, as in ResetDraws.
CrossColumns == {108, 116, 128}
CrossDraws ==
    { <<<<10, 180>>, <<140, 180>>, <<x - 10, 180>>, <<28, 180>>, <<0, 1>>, g>> :
        x \in CrossColumns, g \in GapDraws }
\* delta times of the frames, ms
CrossDeltaTimes == {50, 100}

\* The round after construction.  The history variable also holds the frame
\* period of the display, which every frame step of the run uses.
CrossInit ==
    \E draws \in CrossDraws, period \in CrossDeltaTimes :
    \E r \in {resetRound(200, 200, draws)} :
        /\ canvas = r.canvas
        /\ trailMask = r.trailMask
        /\ playerOne = r.playerOne
        /\ playerTwo = r.playerTwo
        /\ isMoving = r.isMoving
        /\ hasRoundEnded = r.hasRoundEnded
        /\ hud = r.hud
        /\ pressedKeys = {}
        /\ lastStep = [one |-> "spawn", two |-> "spawn", from |-> "start",
                       dt |-> period]

\* handleKeyDown with player two's turn-right key, before the round starts
CrossKeyDown ==
    /\ Status = "Idle" /\ playerTwo.angleRadians < 1000
    /\ pressedKeys' = pressedKeys \cup {playerTwoTurnRightKey}
    /\ UNCHANGED <<isMoving, hasRoundEnded, trailMask, playerOne, playerTwo,
                   hud, canvas, lastStep>>

\* a frame step of the Idle round while player two turns: one second of
\* frames turns it by a quarter turn, to head down its column
CrossAim ==
    /\ Status = "Idle" /\ pressedKeys # {} /\ playerTwo.angleRadians < 1000
    /\ \E r \in StepResults(lastStep.dt, <<0, 1>>, <<0, 1>>) :
          /\ StepApply(r)
          /\ lastStep' = [one |-> r.lastStep.one, two |-> r.lastStep.two,
                          from |-> "step", dt |-> lastStep.dt]

\* the toggle key starts the round once player two heads down its column and
\* no turn key is down
CrossStart ==
    /\ Status = "Idle" /\ pressedKeys = {} /\ playerTwo.angleRadians = 1000
    /\ Toggle

\* a frame step of the Running round; the round runs until both have crashed
CrossStep ==
    /\ RunningNow
    /\ \E drawOne \in StepDraws(playerOne, lastStep.dt),
          drawTwo \in StepDraws(playerTwo, lastStep.dt) :
       \E r \in StepResults(lastStep.dt, drawOne, drawTwo) :
          /\ StepApply(r)
          /\ lastStep' = [one |-> r.lastStep.one, two |-> r.lastStep.two,
                          from |-> "step", dt |-> lastStep.dt]

CrossNext ==
    \/ CrossKeyDown
    \/ KeyUp
    \/ CrossAim
    \/ CrossStart
    \/ CrossStep

SpecCross == CrossInit /\ [][CrossNext]_vars

\* the points held in a buffer
PointsOf(buffer) == { buffer[i] : i \in 1..Len(buffer) }

\* C21: in a frame step of the Running round, a living player whose rounded
\* candidate position is a point of its own gap corridor or of the opponent's
\* gap corridor, as the corridors are when its collision query is made (for
\* player two that is after player one's move), is not killed by the trail
\* query of that step.
C21_CorridorPointNeverCollides ==
    [][(RunningNow /\ lastStep'.from = "step" /\ CrossStep)
         => /\ (/\ playerOne.isAlive
                /\ RoundedPoint(CandidateOne(lastStep.dt))
                     \in PointsOf(playerOne.gapCorridor)
                           \cup PointsOf(playerTwo.gapCorridor))
                 => lastStep'.one # "trail"
            /\ (/\ playerTwo.isAlive
                /\ RoundedPoint(CandidateTwo(lastStep.dt))
                     \in PointsOf(playerTwo.gapCorridor)
                           \cup PointsOf(playerOne'.gapCorridor))
                 => lastStep'.two # "trail"]_vars

\* player two has just moved onto a point of player one's corridor, in the
\* step in which player one stamped a cell of player two's circle
C21_Witness ==
    /\ lastStep.from = "step" /\ lastStep.one = "solid" /\ lastStep.two = "solid"
    /\ RoundedPoint(playerTwo.positionPixels) \in PointsOf(playerOne.gapCorridor)
    /\ StampCells(RoundedPoint(playerOne.positionPixels), 200, 200)
         \cap StampCells(RoundedPoint(playerTwo.positionPixels), 200, 200) # {}

\* C22 as claimed: the mask cell at every point held in a gap corridor is
\* unoccupied.
C22_CorridorCellsUnoccupied ==
    \A p \in PointsOf(playerOne.gapCorridor) \cup PointsOf(playerTwo.gapCorridor) :
        (p.y * trailMask.widthPixels + p.x) \notin trailMask.occupancy

\* C22: a move committed while the player's gap is active marks nothing: in a
\* frame step of the Running round in which a player commits a gap move, the
\* mask changes by exactly the cells the other player stamps with a solid
\* move, and the point traversed is the newest point of the player's corridor.
C22_GapMovesMarkNothing ==
    [][(RunningNow /\ lastStep'.from = "step" /\ CrossStep)
         => /\ lastStep'.one = "gap"
                 => /\ trailMask'.occupancy = trailMask.occupancy \cup StampedByTwo
                    /\ playerOne'.gapCorridor =
                         Append(playerOne.gapCorridor,
                                RoundedPoint(playerOne'.positionPixels))
            /\ lastStep'.two = "gap"
                 => /\ trailMask'.occupancy = trailMask.occupancy \cup StampedByOne
                    /\ playerTwo'.gapCorridor =
                         Append(playerTwo.gapCorridor,
                                RoundedPoint(playerTwo'.positionPixels))]_vars

\* player one has just committed a gap move next to its own solid trail, and
\* the cell at the point it traversed is unoccupied
C22_Witness ==
    /\ lastStep.from = "step" /\ lastStep.one = "gap"
    /\ Len(playerOne.gapCorridor) = 1
    /\ C22_CorridorCellsUnoccupied
    /\ StampCells([x |-> playerOne.gapCorridor[1].x - 4,
                   y |-> playerOne.gapCorridor[1].y], 200, 200)
         \subseteq trailMask.occupancy

(***************************************************************************)
(* C23                                                                     *)
(***************************************************************************)
\* the mask has the size of the surface that the step reads for hitsBorder
MaskFitsSurface ==
    /\ trailMask.widthPixels = canvas.clientWidth
    /\ trailMask.heightPixels = canvas.clientHeight

\* C23: a change of the surface size in any round state leaves an Idle round
\* whose mask has the new width and height and whose players are alive with
\* score zero inside the new safe rectangle; and in every state the mask
\* dimensions are those of the surface used for the border check.
C23_ResizeFullyResets ==
    /\ MaskFitsSurface
    /\ [][/\ MaskFitsSurface'
          /\ (canvas' # canvas) =>
                /\ Status' = "Idle"
                /\ playerOne'.isAlive /\ playerOne'.scoreSeconds = 0
                /\ playerTwo'.isAlive /\ playerTwo'.scoreSeconds = 0
                /\ InsideSafe(playerOne'.positionPixels,
                              canvas'.clientWidth, canvas'.clientHeight)
                /\ InsideSafe(playerTwo'.positionPixels,
                              canvas'.clientWidth, canvas'.clientHeight)]_vars

(***************************************************************************)
(* C24                                                                     *)
(***************************************************************************)
\* C24: the status text is the ended text exactly when the round has ended,
\* empty exactly when the round is moving, and the idle or the paused text
\* exactly when it is neither; the running flag is set exactly when the round
\* is moving and not ended.  The idle text is what construction and every
\* reset leave and is entered in no other way; the paused text is entered
\* only by the toggle key in a Running round.
C24_StatusTextMatchesRound ==
    /\ hud.statusText = StatusIdle
    /\ []((hud.statusText = StatusEnded) <=> hasRoundEnded)
    /\ []((hud.statusText = "") <=> (isMoving /\ ~hasRoundEnded))
    /\ []((hud.statusText \in {StatusIdle, StatusPaused})
            <=> (~isMoving /\ ~hasRoundEnded))
    /\ [](hud.isRunning <=> (isMoving /\ ~hasRoundEnded))
    /\ [][(canvas' # canvas \/ Restart) => hud'.statusText = StatusIdle]_vars
    /\ [][(hud'.statusText = StatusIdle /\ hud.statusText # StatusIdle)
            => (canvas' # canvas \/ Restart)]_vars
    /\ [][(hud'.statusText = StatusPaused /\ hud.statusText # StatusPaused)
            => (isMoving /\ ~hasRoundEnded /\ Toggle)]_vars

\* a round that has just ended with the crash of player two, player one
\* having crashed in an earlier step: it shows the ended text
C24_Witness ==
    /\ hasRoundEnded /\ hud.statusText = StatusEnded /\ ~hud.isRunning
    /\ lastStep.from = "step" /\ lastStep.one = "dead"

(***************************************************************************)
(* C25: construction on a surface without area                             *)
(***************************************************************************)
\* window.innerWidth and window.innerHeight when the effect runs: a window
\* without width, without height, or a regular one
SetupSurfaces == {<<0, 0>>, <<0, 124>>, <<124, 0>>, <<124, 124>>}

\* The state after the effect has run, as Init, for these windows.  The
\* effect returns early only without a canvas element or a 2d context; it
\* has no test of the size or of CONFIG before resetRound() at line 453 and
\* requestAnimationFrame(step) at line 599.
SetupInit ==
    \E s \in SetupSurfaces, draws \in ResetDraws :
    \E r \in {resetRound(s[1], s[2], draws)} :
        /\ canvas = r.canvas
        /\ trailMask = r.trailMask
        /\ playerOne = r.playerOne
        /\ playerTwo = r.playerTwo
        /\ isMoving = r.isMoving
        /\ hasRoundEnded = r.hasRoundEnded
        /\ hud = r.hud
        /\ pressedKeys = {}
        /\ lastStep = [one |-> "spawn", two |-> "spawn", from |-> "start"]

SpecSetup == SetupInit /\ [][Next]_vars

ValidSurface == canvas.clientWidth > 0 /\ canvas.clientHeight > 0

\* C25: on a surface of zero width or height no round is created (there is
\* no state with a round on such a surface) and no frame step runs.
C25_InvalidSurfaceRejected ==
    /\ ValidSurface
    /\ [][(AnyStep \/ Restart) => ValidSurface]_vars

(***************************************************************************)
(* C26: the two-player scoring variant (src/src/App.tsx)                   *)
(***************************************************************************)
\* The variant has no gaps and no border: a move is clamped to the surface,
\* and only a player's own recent points are excused.  Its markVisitedCircle
\* and collidesWithTrailExcludingRecent are, statement for statement, the
\* mask functions above.  Its closure has gameOverText where the gap variant
\* has hasRoundEnded; the handlers only test whether that string is empty,
\* and the variable hasRoundEnded holds that truth value: gameOverText # "".
\* The history variable holds what the last step did and the frame period.

\* window sizes <<width, height>>
AppSurfaces == {<<200, 200>>, <<120, 200>>}
\* Math.random() values of setCanvasSizeForHiDPIAndInitPositions: x and y of
\* player one, x and y of player two; the players spawn on one row
AppDraws == { <<<<18, 196>>, <<18, 196>>, <<18 + d, 196>>, <<18, 196>>>> : d \in {30, 60} }
\* delta time of the frames, ms
AppDeltaTime == 100

\* the round that setCanvasSizeForHiDPIAndInitPositions leaves behind
setCanvasSizeForHiDPIAndInitPositions(w, h, draws) ==
    LET radius == radiusPixels
        posOne == [x |-> randomInRange(radius * 1000, (w - radius) * 1000, draws[1]),
                   y |-> randomInRange(radius * 1000, (h - radius) * 1000, draws[2])]
        posTwo == [x |-> randomInRange(radius * 1000, (w - radius) * 1000, draws[3]),
                   y |-> randomInRange(radius * 1000, (h - radius) * 1000, draws[4])]
        fresh(pos) ==
            [angleRadians |-> 0, positionPixels |-> pos, recentPositions |-> <<>>,
             isAlive |-> TRUE, scoreSeconds |-> 0]
        markOne == markVisitedCircle(createTrailMask(w, h),
                                     Round(posOne.x), Round(posOne.y), radius)
        markTwo == markVisitedCircle(markOne,
                                     Round(posTwo.x), Round(posTwo.y), radius)
    IN  [canvas |-> [clientWidth |-> w, clientHeight |-> h],
         trailMask |-> markTwo,
         playerOne |-> pushRecent(fresh(posOne), RoundedPoint(posOne)),
         playerTwo |-> pushRecent(fresh(posTwo), RoundedPoint(posTwo)),
         isMoving |-> FALSE,
         gameOverText |-> FALSE,
         hud |-> [playerOneScore |-> 0, playerTwoScore |-> 0,
                  statusText |-> StatusIdle, isRunning |-> FALSE]]

\* the assignments of one setCanvasSizeForHiDPIAndInitPositions call
AppReset(w, h) ==
    \E draws \in AppDraws :
    \E r \in {setCanvasSizeForHiDPIAndInitPositions(w, h, draws)} :
        /\ canvas' = r.canvas
        /\ trailMask' = r.trailMask
        /\ playerOne' = r.playerOne
        /\ playerTwo' = r.playerTwo
        /\ isMoving' = r.isMoving
        /\ hasRoundEnded' = r.gameOverText
        /\ hud' = r.hud
        /\ lastStep' = [one |-> "spawn", two |-> "spawn", from |-> "reset",
                        dt |-> lastStep.dt]

\* the state after the effect has run
AppInit ==
    \E draws \in AppDraws :
    \E r \in {setCanvasSizeForHiDPIAndInitPositions(200, 200, draws)} :
        /\ canvas = r.canvas
        /\ trailMask = r.trailMask
        /\ playerOne = r.playerOne
        /\ playerTwo = r.playerTwo
        /\ isMoving = r.isMoving
        /\ hasRoundEnded = r.gameOverText
        /\ hud = r.hud
        /\ pressedKeys = {}
        /\ lastStep = [one |-> "spawn", two |-> "spawn", from |-> "start",
                       dt |-> AppDeltaTime]

\* handleKeyDown with the toggle key
AppToggleKey ==
    IF hasRoundEnded
    THEN UNCHANGED vars
    ELSE /\ isMoving' = ~isMoving
         /\ hud' = [hud EXCEPT !.isRunning = ~isMoving,
                               !.statusText = IF ~isMoving THEN "" ELSE StatusPaused]
         /\ UNCHANGED <<hasRoundEnded, trailMask, playerOne, playerTwo,
                        pressedKeys, canvas, lastStep>>

\* handleKeyDown with the restart key
AppRestartKey ==
    IF ~hasRoundEnded
    THEN UNCHANGED vars
    ELSE /\ AppReset(canvas.clientWidth, canvas.clientHeight)
         /\ UNCHANGED pressedKeys

\* the window resize listener
AppResize ==
    /\ \E s \in AppSurfaces :
          /\ s # <<canvas.clientWidth, canvas.clientHeight>>
          /\ AppReset(s[1], s[2])
    /\ UNCHANGED pressedKeys

\* handleKeyDown with player two's turn-right key, while it has not yet
\* turned round
AppKeyDown ==
    /\ playerTwo.angleRadians < 2000
    /\ pressedKeys' = pressedKeys \cup {playerTwoTurnRightKey}
    /\ UNCHANGED <<isMoving, hasRoundEnded, trailMask, playerOne, playerTwo,
                   hud, canvas, lastStep>>

\* the move of one player in a step of the variant
AppMove(me, tm, dt, w, h) ==
    LET radius == radiusPixels
        free == NextPosition(me, dt)
        next == [x |-> Max(radius * 1000, Min((w - radius) * 1000, free.x)),
                 y |-> Max(radius * 1000, Min((h - radius) * 1000, free.y))]
    IN  IF ~me.isAlive
        THEN [me |-> me, tm |-> tm, what |-> "dead"]
        ELSE IF collidesWithTrailExcludingPoints(tm, RoundedPoint(next), radius,
                                                 me.recentPositions,
                                                 extraIgnoreMarginPixels)
        THEN [me |-> [me EXCEPT !.isAlive = FALSE], tm |-> tm, what |-> "trail"]
        ELSE [me |-> [pushRecent([me EXCEPT !.positionPixels = next],
                                 RoundedPoint(next))
                        EXCEPT !.scoreSeconds = @ + dt],
              tm |-> markVisitedCircle(tm, Round(next.x), Round(next.y), radius),
              what |-> "solid"]

\* the state the step callback of the variant leaves behind
AppStepResults(dt) ==
    LET rotOne == Rotate(playerOne, playerOneTurnLeftKey, playerOneTurnRightKey, dt)
        rotTwo == Rotate(playerTwo, playerTwoTurnLeftKey, playerTwoTurnRightKey, dt)
    IN  IF isMoving
        THEN UNION { { LET bothDead == ~one.me.isAlive /\ ~two.me.isAlive
                       IN  [playerOne |-> one.me, playerTwo |-> two.me,
                            trailMask |-> two.tm,
                            isMoving |-> IF bothDead THEN FALSE ELSE isMoving,
                            statusText |-> IF bothDead THEN StatusEnded
                                           ELSE hud.statusText,
                            lastStep |-> [one |-> one.what, two |-> two.what,
                                          from |-> "step", dt |-> dt]] :
                         two \in {AppMove(rotTwo, one.tm, dt, canvas.clientWidth,
                                          canvas.clientHeight)} } :
                     one \in {AppMove(rotOne, trailMask, dt, canvas.clientWidth,
                                      canvas.clientHeight)} }
        ELSE {[playerOne |-> rotOne, playerTwo |-> rotTwo, trailMask |-> trailMask,
              isMoving |-> isMoving, statusText |-> hud.statusText,
              lastStep |-> [one |-> "still", two |-> "still",
                            from |-> "step", dt |-> dt]]}

\* A frame step of the variant.  Frames are followed while player two turns
\* round before the start and while the round moves.
AppStep ==
    /\ isMoving \/ (pressedKeys # {} /\ playerTwo.angleRadians < 2000)
    /\ \E r \in AppStepResults(lastStep.dt) :
          /\ playerOne' = r.playerOne
          /\ playerTwo' = r.playerTwo
          /\ trailMask' = r.trailMask
          /\ isMoving' = r.isMoving
          /\ hud' = [playerOneScore |-> r.playerOne.scoreSeconds,
                     playerTwoScore |-> r.playerTwo.scoreSeconds,
                     statusText |-> r.statusText,
                     isRunning |-> r.isMoving]
          /\ lastStep' = r.lastStep
          /\ UNCHANGED <<hasRoundEnded, pressedKeys, canvas>>

\* the toggle key, pressed once player two faces player one and no turn key
\* is down, or in a round that has been started before
AppToggle ==
    /\ pressedKeys = {} /\ playerTwo.angleRadians = 2000
    /\ AppToggleKey

AppNext ==
    \/ AppKeyDown
    \/ KeyUp
    \/ AppStep
    \/ AppToggle
    \/ AppRestartKey
    \/ AppResize

SpecApp == AppInit /\ [][AppNext]_vars

BothCrashed == ~playerOne.isAlive /\ ~playerTwo.isAlive

\* C26: in the variant, once both players have crashed the toggle key changes
\* nothing and the restart key leaves a fresh Idle round with both players
\* alive; while the round has not ended the restart key changes nothing.
C26_RestartOnlyAfterEnd ==
    /\ [][(BothCrashed /\ ~isMoving /\ AppToggleKey) => UNCHANGED vars]_vars
    /\ [](BothCrashed /\ ~isMoving
            => ENABLED (/\ AppRestartKey
                        /\ playerOne'.isAlive /\ playerTwo'.isAlive
                        /\ hud'.statusText = StatusIdle))
    /\ [][(~BothCrashed /\ AppRestartKey) => UNCHANGED vars]_vars

(***************************************************************************)
(* C27: one player turning in a circle, gaps disabled                      *)
(***************************************************************************)
\* Player one spawns at (100, 40) or (90, 60) on a 200 x 200 surface and
\* turns right from the first frame on; at 80 px/s and a quarter turn per
\* second its path is a polygon inscribed in a circle of radius 51 px, all
\* inside the safe rectangle.  Player two spawns at (20, 180), runs along
\* its row and dies at the border.  Math.random() values as in ResetDraws.
CircleDraws ==
    { <<<<90, 180>>, <<30, 180>>, <<10, 180>>, <<170, 180>>, <<0, 1>>, <<0, 1>>>>,
      <<<<80, 180>>, <<50, 180>>, <<10, 180>>, <<170, 180>>, <<0, 1>>, <<0, 1>>>> }
\* delta times of the frames, ms: 40, 20, 10, 8 and 4 frames to the circle
CircleDeltaTimes == {100, 200, 400, 500, 1000}
\* the time of one full turn at turnSpeedRadiansPerSecond = PI / 2, ms
CircleTime == 4000
\* the round is followed for this many full turns of play time
MaxCircles == 2

CircleInit ==
    \E draws \in CircleDraws, period \in CircleDeltaTimes :
    \E r \in {resetRound(200, 200, draws)} :
        /\ canvas = r.canvas
        /\ trailMask = r.trailMask
        /\ playerOne = r.playerOne
        /\ playerTwo = r.playerTwo
        /\ isMoving = r.isMoving
        /\ hasRoundEnded = r.hasRoundEnded
        /\ hud = r.hud
        /\ pressedKeys = {}
        /\ lastStep = [one |-> "spawn", two |-> "spawn", from |-> "start",
                       dt |-> period]

\* the toggle key starts the round
CircleStart ==
    /\ Status = "Idle" /\ pressedKeys = {}
    /\ Toggle

\* handleKeyDown with player one's turn-right key, before the first frame of
\* the Running round; the key is held from then on
CircleKeyDown ==
    /\ RunningNow /\ pressedKeys = {} /\ playerOne.scoreSeconds = 0
    /\ pressedKeys' = {playerOneTurnRightKey}
    /\ UNCHANGED <<isMoving, hasRoundEnded, trailMask, playerOne, playerTwo,
                   hud, canvas, lastStep>>

\* the result of step(nowMs) with CONFIG.GAPS.enabled = false: updateGap
\* returns at line 212 and leaves both gap states as they are
StepResultsNoGaps(dt) ==
    LET rotOne == Rotate(playerOne, playerOneTurnLeftKey, playerOneTurnRightKey, dt)
        rotTwo == Rotate(playerTwo, playerTwoTurnLeftKey, playerTwoTurnRightKey, dt)
    IN  IF isMoving /\ ~hasRoundEnded
        THEN LET w == canvas.clientWidth
                 h == canvas.clientHeight
             IN  UNION { { StepFinish(one, two) :
                             two \in {MovePlayer(rotTwo, one.me, one.tm, dt, w, h)} } :
                         one \in {MovePlayer(rotOne, rotTwo, trailMask, dt, w, h)} }
        ELSE {[playerOne |-> rotOne, playerTwo |-> rotTwo, trailMask |-> trailMask,
              isMoving |-> isMoving, hasRoundEnded |-> hasRoundEnded,
              statusText |-> hud.statusText,
              lastStep |-> [one |-> "still", two |-> "still", from |-> "step"]]}

\* a frame step of the Running round while the turn key is held
CircleStep ==
    /\ RunningNow /\ pressedKeys # {}
    /\ \E r \in StepResultsNoGaps(lastStep.dt) :
          /\ r.playerOne.scoreSeconds <= MaxCircles * CircleTime
          /\ StepApply(r)
          /\ lastStep' = [one |-> r.lastStep.one, two |-> r.lastStep.two,
                          from |-> "step", dt |-> lastStep.dt]

CircleNext ==
    \/ CircleStart
    \/ CircleKeyDown
    \/ CircleStep

SpecCircle == CircleInit /\ [][CircleNext]_vars

\* the number of frames in which the turning player completes the circle
FramesPerCircle == CircleTime \div lastStep.dt

Displaced(a, b, angle, dt) ==
    /\ b.x - a.x = (Cos(angle) * forwardSpeedPixelsPerSecond * dt) \div 1000
    /\ b.y - a.y = (Sin(angle) * forwardSpeedPixelsPerSecond * dt) \div 1000

C28_Body(dt) ==
    LET w == canvas.clientWidth
        h == canvas.clientHeight
        mid == trailMask.occupancy \cup StampedByOne
    IN  /\ playerOne.isAlive =>
            /\ playerOne'.isAlive
                 <=> /\ InsideSafe(CandidateOne(dt), w, h)
                     /\ ~UnexcusedHit(trailMask.occupancy, w, h,
                                      RoundedPoint(CandidateOne(dt)),
                                      playerOne.recentPositions
                                        \o playerOne.gapCorridor
                                        \o playerTwo.gapCorridor)
            /\ playerOne'.isAlive
                 => Displaced(playerOne.positionPixels, playerOne'.positionPixels,
                              playerOne'.angleRadians, dt)
        /\ playerTwo.isAlive =>
            /\ playerTwo'.isAlive
                 <=> /\ InsideSafe(CandidateTwo(dt), w, h)
                     /\ ~UnexcusedHit(mid, w, h, RoundedPoint(CandidateTwo(dt)),
                                      playerTwo.recentPositions
                                        \o playerTwo.gapCorridor
                                        \o playerOne'.gapCorridor)
            /\ playerTwo'.isAlive
                 => Displaced(playerTwo.positionPixels, playerTwo'.positionPixels,
                              playerTwo'.angleRadians, dt)

\* C28: in a frame step of the Running round with delta time dt, whatever dt
\* is, a living player stays alive exactly when its end point is inside the
\* safe rectangle and the circle at the rounded end point covers no occupied
\* cell that is not excused, and then it is displaced by forwardSpeed * dt
\* along its heading; no cell between the start and the end is consulted.
C28_UnclampedEndPointOnly ==
    [][\A dt \in DeltaTimes : RunningStep(dt) => C28_Body(dt)]_vars

\* player one has just moved along its row, in one step, from one side of an
\* occupied cell that neither of its two stamps covers to the other side,
\* and is alive; player two stamped nothing in that step, so the cell was
\* occupied before
C28_Witness ==
    /\ lastStep.from = "step" /\ lastStep.one = "solid" /\ playerOne.isAlive
    /\ lastStep.two # "solid"
    /\ Len(playerOne.recentPositions) >= 2
    /\ LET n == Len(playerOne.recentPositions)
           a == playerOne.recentPositions[n - 1]
           b == playerOne.recentPositions[n]
       IN  /\ a.y = b.y
           /\ \E x \in (a.x + radiusPixels + 1)..(b.x - radiusPixels - 1) :
                 (a.y * trailMask.widthPixels + x) \in trailMask.occupancy

(***************************************************************************)
(* C29                                                                     *)
(***************************************************************************)
\* whether a living player's gap is active once its clock has been advanced
\* by dt: an open gap stays open while time remains, a countdown that reaches
\* zero or less opens one
ActiveAfterAdvance(gap, dt) ==
    IF gap.isActive THEN gap.remainingGapTime - dt > 0
    ELSE gap.timeUntilNextGap - dt <= 0

\* a player that commits a move in a Running step: its displacement follows
\* the heading after this step's rotation, and the move is a gap move, which
\* leaves the mask alone, exactly when the gap is active after this step's
\* advance of its clock
C29_Player(before, after, what, stamped, leftKey, rightKey, dt) ==
    (before.isAlive /\ after.isAlive)
      => /\ after.angleRadians = Turned(before.angleRadians, leftKey, rightKey, dt)
         /\ Displaced(before.positionPixels, after.positionPixels,
                      Turned(before.angleRadians, leftKey, rightKey, dt), dt)
         /\ after.gap.isActive = ActiveAfterAdvance(before.gap, dt)
         /\ what = (IF ActiveAfterAdvance(before.gap, dt) THEN "gap" ELSE "solid")
         /\ ActiveAfterAdvance(before.gap, dt)
              => /\ stamped = {}
                 /\ after.gapCorridor
                      = Append(before.gapCorridor, RoundedPoint(after.positionPixels))
                 /\ after.recentPositions = before.recentPositions
         /\ ~ActiveAfterAdvance(before.gap, dt)
              => /\ stamped = StampCells(RoundedPoint(after.positionPixels),
                                         canvas.clientWidth, canvas.clientHeight)
                 /\ after.gapCorridor = before.gapCorridor

\* C29: in a frame step of the Running round the rotation comes first, then
\* the advance of the gap clocks, then the moves: a committed move follows
\* the heading after the rotation and is a gap move exactly when the gap is
\* active after the advance, so the step in which a countdown reaches zero or
\* less already moves without marking, and the step in which a gap runs out
\* already marks.
C29_RotateThenGapThenMove ==
    [][\A dt \in DeltaTimes : RunningStep(dt) =>
          /\ C29_Player(playerOne, playerOne', lastStep'.one, StampedByOne,
                        playerOneTurnLeftKey, playerOneTurnRightKey, dt)
          /\ C29_Player(playerTwo, playerTwo', lastStep'.two, StampedByTwo,
                        playerTwoTurnLeftKey, playerTwoTurnRightKey, dt)
          /\ trailMask'.occupancy
               = (trailMask.occupancy \cup StampedByOne) \cup StampedByTwo]_vars

\* player two has turned, and the step in which its countdown ran out has
\* moved it along the new heading into its first corridor point
C29_Witness ==
    /\ lastStep.from = "step" /\ lastStep.two = "gap" /\ playerTwo.isAlive
    /\ playerTwo.angleRadians # 0
    /\ Len(playerTwo.gapCorridor) = 1
    /\ playerTwo.gap.remainingGapTime >= minDurationSeconds

(***************************************************************************)
(* C30                                                                     *)
(***************************************************************************)
\* the delta time of the scheduler tick just taken, from the history
TickDt ==
    IF lastStep'.periods = lastStep.periods
    THEN lastStep'.time - lastStep.time
    ELSE lastStep'.closedLastDt

\* the timer of the current state is positive and within its upper limit
TimerInRange(gap) ==
    IF gap.isActive
    THEN 0 < gap.remainingGapTime /\ gap.remainingGapTime <= maxDurationSeconds
    ELSE 0 < gap.timeUntilNextGap /\ gap.timeUntilNextGap <= maxIntervalSeconds

\* C30: a tick of a scheduler in Solid charges the delta time to the
\* countdown and makes the transition to Gap exactly when the countdown is
\* then zero or less, setting a remaining gap time within
\* [minDuration, maxDuration]; a tick in Gap charges the remaining gap time
\* and makes the transition to Solid exactly when it is then zero or less,
\* setting a countdown within [minInterval, maxInterval]; the timer set by a
\* transition is not charged in that tick, so there is no second transition.
\* Between ticks a scheduler in Solid has 0 < countdown <= maxInterval and a
\* scheduler in Gap has 0 < remaining gap time <= maxDuration.
C30_OneTransitionPerTick ==
    /\ [](TimerInRange(playerOne.gap))
    /\ [][LET g == playerOne.gap
              n == playerOne'.gap
          IN  IF g.isActive
              THEN /\ n.isActive <=> (g.remainingGapTime - TickDt > 0)
                   /\ n.remainingGapTime = g.remainingGapTime - TickDt
                   /\ n.isActive => n.timeUntilNextGap = g.timeUntilNextGap
                   /\ ~n.isActive => /\ n.timeUntilNextGap >= minIntervalSeconds
                                     /\ n.timeUntilNextGap <= maxIntervalSeconds
              ELSE /\ n.isActive <=> (g.timeUntilNextGap - TickDt <= 0)
                   /\ n.timeUntilNextGap = g.timeUntilNextGap - TickDt
                   /\ ~n.isActive => n.remainingGapTime = g.remainingGapTime
                   /\ n.isActive => /\ n.remainingGapTime >= minDurationSeconds
                                    /\ n.remainingGapTime <= maxDurationSeconds]_vars

\* a tick of 600 ms has just opened a gap: the remaining gap time is the one
\* drawn, less than the delta time of the tick that set it
C30_Witness ==
    /\ playerOne.gap.isActive
    /\ lastStep.closedState = "Solid" /\ lastStep.time = 0
    /\ lastStep.closedLastDt = 600
    /\ playerOne.gap.remainingGapTime < 600
    /\ playerOne.gap.timeUntilNextGap < 0

(***************************************************************************)
(* C31                                                                     *)
(***************************************************************************)
\* the transition is a reset: the resize listener or the restart key
ResetTaken == canvas' # canvas \/ Restart

\* C31: a transition that is not a reset keeps the width and the height of
\* the mask and every occupied cell; it changes the occupancy only if it is a
\* frame step of the Running round, and then by exactly the circles that the
\* solid moves committed in that step stamp.
C31_MaskOnlyGrowsBetweenResets ==
    [][~ResetTaken =>
          /\ trailMask'.widthPixels = trailMask.widthPixels
          /\ trailMask'.heightPixels = trailMask.heightPixels
          /\ trailMask.occupancy \subseteq trailMask'.occupancy
          /\ trailMask'.occupancy # trailMask.occupancy
               => /\ RunningNow /\ lastStep'.from = "step"
                  /\ trailMask'.occupancy
                       = (trailMask.occupancy \cup StampedByOne) \cup StampedByTwo
                  /\ StampedByOne \cup StampedByTwo # {}]_vars

\* the mask holds the spawn stamps and the stamps of the solid moves of two
\* steps, the second of them of player two
C31_Witness ==
    /\ lastStep.from = "step" /\ lastStep.two = "solid"
    /\ Len(playerTwo.recentPositions) = 3
    /\ Cardinality(trailMask.occupancy) > 3 * 13

(***************************************************************************)
(* C32                                                                     *)
(***************************************************************************)
\* everything of a player but its heading is the same in a and b
SameButHeading(a, b) ==
    /\ SameBody(a, b)
    /\ a.isAlive = b.isAlive
    /\ a.gap = b.gap

\* C32: a transition of an ended round that is not a reset leaves the round
\* ended and not moving, both players dead, and positions, scores, buffers,
\* gap states, the mask and the HUD as they were; only headings and the set
\* of keys held down can change.
C32_EndedIsFrozen ==
    [][(hasRoundEnded /\ ~ResetTaken) =>
          /\ hasRoundEnded' /\ ~isMoving /\ ~isMoving'
          /\ ~playerOne'.isAlive /\ ~playerTwo'.isAlive
          /\ SameButHeading(playerOne, playerOne')
          /\ SameButHeading(playerTwo, playerTwo')
          /\ trailMask' = trailMask
          /\ hud' = hud]_vars

\* an ended round in which a frame step has run since the end, with player
\* two turned and its turn key held down
C32_Witness ==
    /\ hasRoundEnded
    /\ lastStep.from = "step" /\ lastStep.one = "still" /\ lastStep.two = "still"
    /\ playerTwoTurnRightKey \in pressedKeys
    /\ playerTwo.angleRadians # 0

(***************************************************************************)
(* C33                                                                     *)
(***************************************************************************)
\* C33: a transition that is not a reset leaves a dead player dead; a reset
\* leaves both players alive.
C33_DeadStaysDeadUntilReset ==
    [][/\ ~ResetTaken => /\ ~playerOne.isAlive => ~playerOne'.isAlive
                         /\ ~playerTwo.isAlive => ~playerTwo'.isAlive
       /\ ResetTaken => (playerOne'.isAlive /\ playerTwo'.isAlive)]_vars

\* a Running round in which a frame step has passed over the dead player one
\* while player two moved on
C33_Witness ==
    /\ RunningNow
    /\ lastStep.from = "step" /\ lastStep.one = "dead"
    /\ lastStep.two \in {"solid", "gap"}
    /\ ~playerOne.isAlive /\ playerTwo.isAlive

(***************************************************************************)
(* C34: does every Running round end                                       *)
(***************************************************************************)
\* The round of SpecCircle with CONFIG.GAPS.enabled as in the source (true):
\* player one spawns at (100, 40) or (90, 60) on a 200 x 200 surface, player
\* two at (20, 180).  Player one either holds its turn-right key from the
\* first frame on or no key is ever down.  No toggle, restart or resize
\* arrives once the round runs.
\* delta times of the frames, ms: 20 and 10 frames to the circle
EndDeltaTimes == {200, 400}
\* the round is followed for this many full turns of play time: with frames
\* of 400 ms and a gap in every fourth frame, the corridor buffer takes its
\* 600th point in frame 2399, and 20 frames make two circles and five gaps
MaxEndCircles == 243

\* What the step reads of the round: the scores are only added to and shown,
\* and a heading is read through Math.cos and Math.sin alone, so full turns
\* of it make no difference.
EndView ==
    LET body(player) == [player EXCEPT !.scoreSeconds = 0,
                                       !.angleRadians = @ % 4000]
    IN  [playerOne |-> body(playerOne), playerTwo |-> body(playerTwo),
         trailMask |-> trailMask, isMoving |-> isMoving,
         hasRoundEnded |-> hasRoundEnded, pressedKeys |-> pressedKeys,
         canvas |-> canvas]

\* history: the view and the clock of the state in which player one's gap
\* corridor was first found full, kept from the next frame step on
EndSeen ==
    IF lastStep.seen = <<>> /\ Len(playerOne.gapCorridor) = corridorMaxPoints
    THEN <<[view |-> EndView, at |-> playerOne.scoreSeconds]>>
    ELSE lastStep.seen

\* frame is the parity of the number of frame steps taken
EndHistory(one, two) ==
    [one |-> one, two |-> two, from |-> "step", dt |-> lastStep.dt,
     seen |-> EndSeen, frame |-> 1 - lastStep.frame]

EndInit ==
    \E draws \in CircleDraws, period \in EndDeltaTimes :
    \E r \in {resetRound(200, 200, draws)} :
        /\ canvas = r.canvas
        /\ trailMask = r.trailMask
        /\ playerOne = r.playerOne
        /\ playerTwo = r.playerTwo
        /\ isMoving = r.isMoving
        /\ hasRoundEnded = r.hasRoundEnded
        /\ hud = r.hud
        /\ pressedKeys = {}
        /\ lastStep = [one |-> "spawn", two |-> "spawn", from |-> "start",
                       dt |-> period, seen |-> <<>>, frame |-> 0]

\* the frame step is followed while player one's clock is within the bound
EndOpen == playerOne.scoreSeconds < MaxEndCircles * CircleTime

\* the Math.random() values a frame step can consume for a player; in the
\* rounds with the turn key held every one of them is 0
EndDraws(player) ==
    IF pressedKeys = {} THEN StepDraws(player, lastStep.dt) ELSE {<<0, 1>>}

\* a frame step of the Running round
EndStep ==
    /\ RunningNow /\ EndOpen
    /\ \E drawOne \in EndDraws(playerOne), drawTwo \in EndDraws(playerTwo) :
       \E r \in StepResults(lastStep.dt, drawOne, drawTwo) :
          /\ StepApply(r)
          /\ lastStep' = EndHistory(r.lastStep.one, r.lastStep.two)

EndNext ==
    \/ CircleStart
    \/ CircleKeyDown
    \/ EndStep

\* The frame step as the history shows it: EndTick is enabled in the states
\* in which EndStep is, the transitions of EndNext that satisfy it are those
\* of EndStep, and each of them changes lastStep.
EndTick ==
    /\ RunningNow /\ EndOpen
    /\ \E one, two \in {"dead", "border", "trail", "solid", "gap"} :
          lastStep' = EndHistory(one, two)

\* requestAnimationFrame(step) is called again at the end of every step
\* (line 596), so the frame step is taken again and again
SpecEnd == EndInit /\ [][EndNext]_vars /\ WF_lastStep(EndTick)

\* C34 as claimed, in the form a finite run refutes: if every Running round
\* ended, no run could come back, Running, to what the step reads of an
\* earlier state of it, since from there the same keys and Math.random()
\* values repeat the same frames without end.
C34_NoRunningStateRecurs ==
    ~(/\ RunningNow
      /\ lastStep.seen # <<>>
      /\ playerOne.scoreSeconds > lastStep.seen[1].at
      /\ EndView = lastStep.seen[1].view)

\* C34: a Running round in which no turn key is held becomes Ended; a player
\* that keeps turning with frames of 400 ms is alive after every frame.
C34_EndsWhenNoTurnKeyHeld ==
    /\ RunningNow ~> (hasRoundEnded \/ pressedKeys # {})
    /\ []((lastStep.dt = 400 /\ pressedKeys # {}) => playerOne.isAlive)
    /\ [][EndTick <=> EndStep]_vars

\* a round without turn input has ended with both players at the border,
\* player one after a move through a gap
C34_Witness ==
    /\ hasRoundEnded /\ pressedKeys = {}
    /\ lastStep.from = "step"
    /\ ~playerOne.isAlive /\ ~playerTwo.isAlive
    /\ Len(playerOne.gapCorridor) > 0
    /\ hitsBorder(CandidateOne(lastStep.dt).x, CandidateOne(lastStep.dt).y,
                  canvas.clientWidth, canvas.clientHeight, radiusPixels)

(***************************************************************************)
(* C35                                                                     *)
(***************************************************************************)
\* C35: while both players are alive their scores are equal, and while
\* exactly one is alive its score is at least the dead player's.
C35_ScoresOfTheLiving ==
    /\ (playerOne.isAlive /\ playerTwo.isAlive)
         => playerOne.scoreSeconds = playerTwo.scoreSeconds
    /\ (playerOne.isAlive /\ ~playerTwo.isAlive)
         => playerOne.scoreSeconds >= playerTwo.scoreSeconds
    /\ (playerTwo.isAlive /\ ~playerOne.isAlive)
         => playerTwo.scoreSeconds >= playerOne.scoreSeconds

\* both players alive with 1.2 s of play, player one's last move through a
\* gap and player two's a solid one
C35_Witness ==
    /\ playerOne.isAlive /\ playerTwo.isAlive
    /\ lastStep.from = "step" /\ lastStep.one = "gap" /\ lastStep.two = "solid"
    /\ playerOne.scoreSeconds = 1200 /\ playerTwo.scoreSeconds = 1200

(***************************************************************************)
(* C36                                                                     *)
(***************************************************************************)
\* the mask and the buffers as a reset leaves them
SpawnOnly ==
    /\ trailMask.occupancy =
         StampCells(RoundedPoint(playerOne.positionPixels),
                    canvas.clientWidth, canvas.clientHeight)
           \cup StampCells(RoundedPoint(playerTwo.positionPixels),
                           canvas.clientWidth, canvas.clientHeight)
    /\ playerOne.recentPositions = <<RoundedPoint(playerOne.positionPixels)>>
    /\ playerTwo.recentPositions = <<RoundedPoint(playerTwo.positionPixels)>>
    /\ playerOne.gapCorridor = <<>>
    /\ playerTwo.gapCorridor = <<>>

\* C36: right after any reset (the first one, a restart, a resize) the
\* occupied cells are exactly the in-grid cells of the two spawn stamps, each
\* recent buffer holds its player's rounded spawn point and nothing else, and
\* both gap corridors are empty.
C36_ResetLeavesSpawnStampsOnly ==
    /\ SpawnOnly
    /\ [][ResetTaken => SpawnOnly']_vars

\* a round reset before its end, with two spawn stamps apart from each other
C36_Witness ==
    /\ lastStep.from = "other" /\ lastStep.one = "spawn"
    /\ SpawnOnly
    /\ Cardinality(trailMask.occupancy) = 2 * 13

(***************************************************************************)
(* C37                                                                     *)
(***************************************************************************)
\* C37: when a query has returned false, the query on the same mask with the
\* same centre and radius, an exclusion list that holds at least the same
\* points (in any order) and a margin at least as large returns false too.
C37_QueryMonotone ==
    (lastStep.queried /\ ~lastStep.result) =>
        \A more \in MaskIgnoreLists, margin \in MaskMargins(lastStep.q.r) :
            (/\ PointsOf(lastStep.q.ignored) \subseteq PointsOf(more)
             /\ margin >= lastStep.q.margin)
              => ~collidesScan(trailMask, lastStep.q.center, lastStep.q.r, more, margin)

\* a query with one excluded point and no margin found no collision, where
\* the query without the point finds one; the model has larger lists and
\* larger margins to compare with
C37_Witness ==
    /\ lastStep.queried /\ ~lastStep.result
    /\ Len(lastStep.q.ignored) = 1 /\ lastStep.q.margin = 0 /\ lastStep.q.r = 2
    /\ collidesScan(trailMask, lastStep.q.center, lastStep.q.r, <<>>, 0)
    /\ \E more \in MaskIgnoreLists :
          /\ Len(more) = 2
          /\ more[2] = lastStep.q.ignored[1]
          /\ more[1] # more[2]

(***************************************************************************)
(* C38: the edge of the play area in the variant of src/src/App.tsx        *)
(***************************************************************************)
\* Both players of the variant run to the right (heading 0) on rows of their
\* own, player one from x = 180, 188 or 196, player two from x = 150 or 190,
\* on a 200 x 200 surface.  Math.random() values as in AppDraws.
EdgeDraws ==
    { <<<<a, 196>>, <<18, 196>>, <<b, 196>>, <<98, 196>>>> :
        a \in {178, 186, 194}, b \in {148, 188} }
\* delta times of the frames, ms
EdgeDeltaTimes == {100, 200}
\* the round is followed for this many frames of 100 ms of play time
MaxEdgeFrames == 12

EdgeInit ==
    \E draws \in EdgeDraws, period \in EdgeDeltaTimes :
    \E r \in {setCanvasSizeForHiDPIAndInitPositions(200, 200, draws)} :
        /\ canvas = r.canvas
        /\ trailMask = r.trailMask
        /\ playerOne = r.playerOne
        /\ playerTwo = r.playerTwo
        /\ isMoving = r.isMoving
        /\ hasRoundEnded = r.gameOverText
        /\ hud = r.hud
        /\ pressedKeys = {}
        /\ lastStep = [one |-> "spawn", two |-> "spawn", from |-> "start",
                       dt |-> period]

\* the toggle key starts the round
EdgeStart ==
    /\ ~isMoving /\ playerOne.scoreSeconds = 0
    /\ AppToggleKey

\* a frame step of the moving round
EdgeStep ==
    /\ isMoving
    /\ playerOne.scoreSeconds < MaxEdgeFrames * 100
    /\ AppStep

EdgeNext ==
    \/ EdgeStart
    \/ EdgeStep

SpecEdge == EdgeInit /\ [][EdgeNext]_vars

\* the position lies off the play surface
OffSurface(pos) ==
    \/ pos.x < 0 \/ pos.x > canvas.clientWidth * 1000
    \/ pos.y < 0 \/ pos.y > canvas.clientHeight * 1000

\* C38: in a frame step of the moving round, a living player whose forward
\* step ends off the play surface is not alive after the step.
C38_EdgeKills ==
    [][(isMoving /\ lastStep'.from = "step") =>
         /\ (playerOne.isAlive /\ OffSurface(NextPosition(playerOne, lastStep.dt)))
              => ~playerOne'.isAlive
         /\ (playerTwo.isAlive /\ OffSurface(NextPosition(playerTwo, lastStep.dt)))
              => ~playerTwo'.isAlive]_vars

(***************************************************************************)
(* C39: the early two-player variant of src/unnamed/part_001               *)
(***************************************************************************)
\* The variant has no scores, no alive flags, no end of round and no HUD:
\* a player is its heading, its position and its recent buffer, and
\* hasRoundEnded and hud are not part of it (they keep one value).
\* window sizes <<innerWidth, innerHeight>>
EarlySurfaces == {<<60, 40>>, <<40, 40>>}
\* Math.random() values of setCanvasSizeForHiDPIAndInitPositions: x and y of
\* player one, x and y of player two; the players spawn on one row, on the
\* 60 x 40 window at x = 10 and, 12, 16 or 20 px to the right, at y = 20
EarlyDraws == { <<<<8, 56>>, <<18, 36>>, <<8 + d, 56>>, <<18, 36>>>> : d \in {12, 16, 20} }
\* delta time of the frames, ms
EarlyDeltaTime == 100

\* setCanvasSizeForHiDPIAndInitPositions of the variant (lines 223-262): what
\* it assigns; isMoving and the two headings are left as they are
EarlyInitPositions(w, h, draws) ==
    LET radius == radiusPixels
        posOne == [x |-> randomInRange(radius * 1000, (w - radius) * 1000, draws[1]),
                   y |-> randomInRange(radius * 1000, (h - radius) * 1000, draws[2])]
        posTwo == [x |-> randomInRange(radius * 1000, (w - radius) * 1000, draws[3]),
                   y |-> randomInRange(radius * 1000, (h - radius) * 1000, draws[4])]
        markOne == markVisitedCircle(createTrailMask(w, h),
                                     Round(posOne.x), Round(posOne.y), radius)
        markTwo == markVisitedCircle(markOne,
                                     Round(posTwo.x), Round(posTwo.y), radius)
    IN  [canvas |-> [clientWidth |-> w, clientHeight |-> h],
         trailMask |-> markTwo,
         positionOne |-> posOne, recentOne |-> <<RoundedPoint(posOne)>>,
         positionTwo |-> posTwo, recentTwo |-> <<RoundedPoint(posTwo)>>]

\* the state after the effect has run: isMoving false, both headings 0
EarlyInit ==
    \E draws \in EarlyDraws :
    \E r \in {EarlyInitPositions(60, 40, draws)} :
        /\ canvas = r.canvas
        /\ trailMask = r.trailMask
        /\ playerOne = [angleRadians |-> 0, positionPixels |-> r.positionOne,
                        recentPositions |-> r.recentOne]
        /\ playerTwo = [angleRadians |-> 0, positionPixels |-> r.positionTwo,
                        recentPositions |-> r.recentTwo]
        /\ isMoving = FALSE
        /\ hasRoundEnded = FALSE
        /\ hud = [statusText |-> ""]
        /\ pressedKeys = {}
        /\ lastStep = [one |-> "spawn", two |-> "spawn", from |-> "start",
                       dt |-> EarlyDeltaTime]

\* the window resize listener
EarlyResize ==
    /\ \E s \in EarlySurfaces, draws \in EarlyDraws :
       \E r \in {EarlyInitPositions(s[1], s[2], draws)} :
          /\ s # <<canvas.clientWidth, canvas.clientHeight>>
          /\ canvas' = r.canvas
          /\ trailMask' = r.trailMask
          /\ playerOne' = [playerOne EXCEPT !.positionPixels = r.positionOne,
                                            !.recentPositions = r.recentOne]
          /\ playerTwo' = [playerTwo EXCEPT !.positionPixels = r.positionTwo,
                                            !.recentPositions = r.recentTwo]
          /\ lastStep' = [one |-> "spawn", two |-> "spawn", from |-> "reset",
                          dt |-> lastStep.dt]
    /\ UNCHANGED <<isMoving, hasRoundEnded, hud, pressedKeys>>

\* handleKeyDown with the toggle key, pressed while no turn key is down and
\* player two heads right or left
EarlyToggle ==
    /\ pressedKeys = {} /\ playerTwo.angleRadians \in {0, 2000}
    /\ isMoving' = ~isMoving
    /\ UNCHANGED <<hasRoundEnded, trailMask, playerOne, playerTwo, pressedKeys,
                   hud, canvas, lastStep>>

\* handleKeyDown with player two's turn-right key, while the round stands
\* and player two has not yet turned round
EarlyKeyDown ==
    /\ ~isMoving /\ playerTwo.angleRadians < 2000
    /\ pressedKeys' = pressedKeys \cup {playerTwoTurnRightKey}
    /\ UNCHANGED <<isMoving, hasRoundEnded, trailMask, playerOne, playerTwo,
                   hud, canvas, lastStep>>

\* lines 313-329: the proposed position of a player, clamped to the surface
EarlyNextPosition(player, dt, w, h) ==
    LET free == NextPosition(player, dt)
    IN  [x |-> Max(radiusPixels * 1000, Min((w - radiusPixels) * 1000, free.x)),
         y |-> Max(radiusPixels * 1000, Min((h - radiusPixels) * 1000, free.y))]

\* variant: player one's move is committed before player two's check
EarlyStepResults_OneFirst(dt) ==
    LET w == canvas.clientWidth
        h == canvas.clientHeight
        rotOne == Rotate(playerOne, playerOneTurnLeftKey, playerOneTurnRightKey, dt)
        rotTwo == Rotate(playerTwo, playerTwoTurnLeftKey, playerTwoTurnRightKey, dt)
        nextOne == EarlyNextPosition(rotOne, dt, w, h)
        nextTwo == EarlyNextPosition(rotTwo, dt, w, h)
        playerOneCollides ==
            collidesWithTrailExcludingPoints(trailMask, RoundedPoint(nextOne),
                radiusPixels, rotOne.recentPositions, extraIgnoreMarginPixels)
        markOne == markVisitedCircle(trailMask, Round(nextOne.x), Round(nextOne.y),
                                     radiusPixels)
        playerTwoCollides ==
            collidesWithTrailExcludingPoints(markOne, RoundedPoint(nextTwo),
                radiusPixels, rotTwo.recentPositions, extraIgnoreMarginPixels)
    IN  IF ~isMoving
        THEN [playerOne |-> rotOne, playerTwo |-> rotTwo, trailMask |-> trailMask,
              isMoving |-> isMoving, what |-> "still"]
        ELSE IF playerOneCollides \/ playerTwoCollides
        THEN [playerOne |-> rotOne, playerTwo |-> rotTwo, trailMask |-> trailMask,
              isMoving |-> FALSE, what |-> "stopped"]
        ELSE [playerOne |-> pushRecent([rotOne EXCEPT !.positionPixels = nextOne],
                                       RoundedPoint(nextOne)),
              playerTwo |-> pushRecent([rotTwo EXCEPT !.positionPixels = nextTwo],
                                       RoundedPoint(nextTwo)),
              trailMask |-> markVisitedCircle(markOne, Round(nextTwo.x),
                                              Round(nextTwo.y), radiusPixels),
              isMoving |-> isMoving, what |-> "moved"]

\* the state the step callback of the variant leaves behind (lines 271-378)
EarlyStepResults(dt) ==
    LET w == canvas.clientWidth
        h == canvas.clientHeight
        rotOne == Rotate(playerOne, playerOneTurnLeftKey, playerOneTurnRightKey, dt)
        rotTwo == Rotate(playerTwo, playerTwoTurnLeftKey, playerTwoTurnRightKey, dt)
        nextOne == EarlyNextPosition(rotOne, dt, w, h)
        nextTwo == EarlyNextPosition(rotTwo, dt, w, h)
        playerOneCollides ==
            collidesWithTrailExcludingPoints(trailMask, RoundedPoint(nextOne),
                radiusPixels, rotOne.recentPositions, extraIgnoreMarginPixels)
        playerTwoCollides ==
            collidesWithTrailExcludingPoints(trailMask, RoundedPoint(nextTwo),
                radiusPixels, rotTwo.recentPositions, extraIgnoreMarginPixels)
        markOne == markVisitedCircle(trailMask, Round(nextOne.x), Round(nextOne.y),
                                     radiusPixels)
    IN  IF ~isMoving
        THEN [playerOne |-> rotOne, playerTwo |-> rotTwo, trailMask |-> trailMask,
              isMoving |-> isMoving, what |-> "still"]
        ELSE IF playerOneCollides \/ playerTwoCollides
        THEN [playerOne |-> rotOne, playerTwo |-> rotTwo, trailMask |-> trailMask,
              isMoving |-> FALSE, what |-> "stopped"]
        ELSE [playerOne |-> pushRecent([rotOne EXCEPT !.positionPixels = nextOne],
                                       RoundedPoint(nextOne)),
              playerTwo |-> pushRecent([rotTwo EXCEPT !.positionPixels = nextTwo],
                                       RoundedPoint(nextTwo)),
              trailMask |-> markVisitedCircle(markOne, Round(nextTwo.x),
                                              Round(nextTwo.y), radiusPixels),
              isMoving |-> isMoving, what |-> "moved"]

\* A frame step of the variant.  Frames are followed while player two turns
\* round and while the round moves.
EarlyStep ==
    /\ isMoving \/ (pressedKeys # {} /\ playerTwo.angleRadians < 2000)
    /\ \E r \in {EarlyStepResults(lastStep.dt)} :
          /\ playerOne' = r.playerOne
          /\ playerTwo' = r.playerTwo
          /\ trailMask' = r.trailMask
          /\ isMoving' = r.isMoving
          /\ lastStep' = [one |-> r.what, two |-> r.what, from |-> "step",
                          dt |-> lastStep.dt]
          /\ UNCHANGED <<hasRoundEnded, hud, pressedKeys, canvas>>

EarlyNext ==
    \/ EarlyKeyDown
    \/ KeyUp
    \/ EarlyToggle
    \/ EarlyResize
    \/ EarlyStep

SpecEarly == EarlyInit /\ [][EarlyNext]_vars

\* the proposed positions of a frame step taken in the current state
EarlyCandidateOne ==
    EarlyNextPosition(Rotate(playerOne, playerOneTurnLeftKey, playerOneTurnRightKey,
                             lastStep.dt),
                      lastStep.dt, canvas.clientWidth, canvas.clientHeight)
EarlyCandidateTwo ==
    EarlyNextPosition(Rotate(playerTwo, playerTwoTurnLeftKey, playerTwoTurnRightKey,
                             lastStep.dt),
                      lastStep.dt, canvas.clientWidth, canvas.clientHeight)

\* a player's check fails on the mask as the frame step finds it
EarlyHit(player, candidate) ==
    UnexcusedHit(trailMask.occupancy, canvas.clientWidth, canvas.clientHeight,
                 RoundedPoint(candidate), player.recentPositions)

\* C39: in a frame step of the moving round, if the check of either player
\* fails on the mask as it is before the step, then no position, no mask
\* cell and no recent buffer changes and the movement stops; otherwise both
\* players are at their proposed positions, the mask has gained exactly the
\* two circles there, each recent buffer has gained its player's rounded
\* position, and the round still moves.
C39_BothChecksBeforeAnyMove ==
    [][(isMoving /\ lastStep'.from = "step" /\ EarlyStep) =>
         IF EarlyHit(playerOne, EarlyCandidateOne) \/ EarlyHit(playerTwo, EarlyCandidateTwo)
         THEN /\ ~isMoving'
              /\ playerOne'.positionPixels = playerOne.positionPixels
              /\ playerTwo'.positionPixels = playerTwo.positionPixels
              /\ trailMask' = trailMask
              /\ playerOne'.recentPositions = playerOne.recentPositions
              /\ playerTwo'.recentPositions = playerTwo.recentPositions
         ELSE /\ isMoving'
              /\ playerOne'.positionPixels = EarlyCandidateOne
              /\ playerTwo'.positionPixels = EarlyCandidateTwo
              /\ trailMask'.occupancy =
                   (trailMask.occupancy
                      \cup StampCells(RoundedPoint(EarlyCandidateOne),
                                      canvas.clientWidth, canvas.clientHeight))
                      \cup StampCells(RoundedPoint(EarlyCandidateTwo),
                                      canvas.clientWidth, canvas.clientHeight)
              /\ playerOne'.recentPositions
                   = LastOf(Append(playerOne.recentPositions,
                                   RoundedPoint(EarlyCandidateOne)),
                            recentIgnoreFrameCount)
              /\ playerTwo'.recentPositions
                   = LastOf(Append(playerTwo.recentPositions,
                                   RoundedPoint(EarlyCandidateTwo)),
                            recentIgnoreFrameCount)]_vars

\* both moves of a frame were committed although the two new circles share
\* cells: neither check saw the other player's move
C39_Witness ==
    /\ isMoving /\ lastStep.from = "step" /\ lastStep.one = "moved"
    /\ playerOne.positionPixels # playerTwo.positionPixels
    /\ StampCells(RoundedPoint(playerOne.positionPixels),
                  canvas.clientWidth, canvas.clientHeight)
         \cap StampCells(RoundedPoint(playerTwo.positionPixels),
                         canvas.clientWidth, canvas.clientHeight) # {}

(***************************************************************************)
(* C40: the mask of the single-player variant (second module of            *)
(* src/unnamed/part_000)                                                   *)
(***************************************************************************)
\* markVisitedCircle of the variant (lines 692-716); line 705 takes the row
\* distance from centerX
SoloMarkVisitedCircle(tm, centerX, centerY, r) ==
    LET minX == Max(0, centerX - r)
        maxX == Min(tm.widthPixels - 1, centerX + r)
        minY == Max(0, centerY - r)
        maxY == Min(tm.heightPixels - 1, centerY + r)
        radiusSquared == r * r
        marked == { pixelY * tm.widthPixels + pixelX :
                      <<pixelX, pixelY>> \in
                        { c \in (minX..maxX) \X (minY..maxY) :
                            (c[1] - centerX) * (c[1] - centerX)
                              + (c[2] - centerX) * (c[2] - centerX)
                                <= radiusSquared } }
    IN  [tm EXCEPT !.occupancy = tm.occupancy \cup marked]

\* collidesWithTrailExcludingRecent of the variant (lines 718-762): the scan
\* of the two-player module under another name
collidesWithTrailExcludingRecent(tm, center, r, recentPositions, extraMargin) ==
    collidesScan(tm, center, r, recentPositions, extraMargin)

\* window size of the runs
SoloSurface == <<6, 5>>
\* centres of marks and queries: on the diagonal of the grid, off it, outside
SoloCenters == { [x |-> 1, y |-> 1], [x |-> 3, y |-> 3], [x |-> 2, y |-> 3],
                 [x |-> 4, y |-> 1], [x |-> 0, y |-> 4], [x |-> 5, y |-> 2],
                 [x |-> -1, y |-> 0] }
SoloRadii == {0, 1, 2}
\* the marks <<centerX, centerY, radius>> that made the mask the run starts with
SoloSeeds == { <<>>, << <<2, 2, 1>> >>, << <<4, 1, 2>>, <<1, 2, 1>> >> }

RECURSIVE SoloMaskOf(_, _)
SoloMaskOf(tm, seed) ==
    IF seed = <<>> THEN tm
    ELSE SoloMaskOf(SoloMarkVisitedCircle(tm, seed[1][1], seed[1][2], seed[1][3]),
                    Tail(seed))

\* The variant on a 6 x 5 window, its mask holding the marks of a seed; the
\* dot stands at (0, 0) and has not moved.  The history variable is that of
\* SpecMask.
SoloInit ==
    \E seed \in SoloSeeds :
        /\ canvas = [clientWidth |-> SoloSurface[1], clientHeight |-> SoloSurface[2]]
        /\ trailMask = SoloMaskOf(createTrailMask(SoloSurface[1], SoloSurface[2]), seed)
        /\ playerOne = [angleRadians |-> 0, positionPixels |-> [x |-> 0, y |-> 0],
                        recentPositions |-> <<>>]
        /\ playerTwo = playerOne
        /\ isMoving = FALSE
        /\ hasRoundEnded = FALSE
        /\ hud = [statusText |-> ""]
        /\ pressedKeys = {}
        /\ lastStep = [marked |-> FALSE, center |-> [x |-> 0, y |-> 0], r |-> 0,
                       before |-> {}, queried |-> FALSE, q |-> NoQuery,
                       result |-> FALSE]

\* one markVisitedCircle call
SoloMark ==
    /\ ~lastStep.marked
    /\ \E c \in SoloCenters, r \in SoloRadii :
          /\ trailMask' = SoloMarkVisitedCircle(trailMask, c.x, c.y, r)
          /\ lastStep' = [lastStep EXCEPT !.marked = TRUE, !.center = c, !.r = r,
                                          !.before = trailMask.occupancy,
                                          !.queried = FALSE, !.q = NoQuery,
                                          !.result = FALSE]
    /\ UNCHANGED <<isMoving, hasRoundEnded, playerOne, playerTwo, pressedKeys,
                   hud, canvas>>

\* one collidesWithTrailExcludingRecent call with no recent position, on a
\* mask not queried since its last change
SoloQuery ==
    /\ ~lastStep.queried
    /\ \E c \in SoloCenters, r \in SoloRadii :
          lastStep' = [lastStep EXCEPT
                         !.queried = TRUE,
                         !.q = [center |-> c, r |-> r, ignored |-> <<>>,
                                margin |-> extraIgnoreMarginPixels],
                         !.result = collidesWithTrailExcludingRecent(
                                        trailMask, c, r, <<>>, extraIgnoreMarginPixels)]
    /\ UNCHANGED <<isMoving, hasRoundEnded, trailMask, playerOne, playerTwo,
                   pressedKeys, hud, canvas>>

SoloNext ==
    \/ SoloMark
    \/ SoloQuery

SpecSolo == SoloInit /\ [][SoloNext]_vars

\* C40: markVisitedCircle of the variant leaves occupied exactly the cells
\* that were occupied before and the cells of the grid within the radius of
\* the centre, and the query made right after it at the same centre (on the
\* grid) and radius with no excluded point returns true.
C40_SoloMarkIsDisc ==
    /\ lastStep.marked =>
         trailMask.occupancy = lastStep.before \cup DiscCells(lastStep.center, lastStep.r)
    /\ (/\ lastStep.marked /\ lastStep.queried
        /\ lastStep.q.center = lastStep.center /\ lastStep.q.r = lastStep.r
        /\ InGrid(lastStep.center))
         => lastStep.result

====
